---------------------------- MODULE Spec2Model ----------------------------
(***************************************************************************)
(* Model of the Rubik's-cube algorithm finder (src/src/cube.rs): the       *)
(* bit-packed cube, its 21 move operators, the wildcard match and the      *)
(* parallel iterative-deepening search that streams SearchResult values    *)
(* over an mpsc channel.                                                   *)
(***************************************************************************)
EXTENDS Integers, Sequences, FiniteSets, TLC

(***************************************************************************)
(* u32 bit operations.  A face word produced by pack or solved_state uses  *)
(* bits 0..26 only, so every word handled here is below 2^27.              *)
(* The operators are functions so that an operand is evaluated once,       *)
(* however often the operator's definition reads it.                      *)
(***************************************************************************)
BitAnd[a \in Nat, b \in Nat] ==
  IF a = 0 \/ b = 0 THEN 0
  ELSE (a % 2) * (b % 2) + 2 * BitAnd[a \div 2, b \div 2]

And64 == [a \in 0..63 |-> [b \in 0..63 |-> BitAnd[a, b]]]

\* a & b
And[a \in Nat, b \in Nat] ==
  IF a = 0 \/ b = 0 THEN 0
  ELSE And64[a % 64][b % 64] + 64 * And[a \div 64, b \div 64]

\* a & !m
AndNot[a \in Nat, m \in Nat] == a - And[a, m]

\* a | b
Or[a \in Nat, b \in Nat] == a + b - And[a, b]

\* a ^ b
Xor[a \in Nat, b \in Nat] == a + b - 2 * And[a, b]

\* x << n on a 32-bit word: the bits shifted past bit 31 are lost
Shl(x, n) == IF n = 0 THEN x ELSE (x % (2 ^ (32 - n))) * (2 ^ n)

\* x >> n
Shr(x, n) == x \div (2 ^ n)

SHIFT2 == 6
SHIFT4 == 12
SHIFT6 == 18
SHIFT8 == 24

PIECE0 == 7
PIECE1 == 56
PIECE2 == 448
PIECE3 == 3584
PIECE4 == 28672
PIECE5 == 229376
PIECE6 == 1835008
PIECE7 == 14680064
PIECE8 == 117440512

MASK012 == Or[Or[PIECE0, PIECE1], PIECE2]
MASK036 == Or[Or[PIECE0, PIECE3], PIECE6]
MASK147 == Or[Or[PIECE1, PIECE4], PIECE7]
MASK258 == Or[Or[PIECE2, PIECE5], PIECE8]
MASK678 == Or[Or[PIECE6, PIECE7], PIECE8]

\* enum Color
Grey   == 0
White  == 1
Yellow == 2
Green  == 3
Blue   == 4
Red    == 5
Orange == 6

\* a faulty R: the classes are numbered 0, 1, 2, 3, .. above the variant bits
R_Dense == 3 * 4

\* enum Turn: the discriminants
U  == 0
U_ == 1
U2 == 2
D  == 4
D_ == 5
D2 == 6
L  == 8
L_ == 9
L2 == 10
R  == 16
R_ == 17
R2 == 18
F  == 32
F_ == 33
F2 == 34
B  == 64
B_ == 65
B2 == 66
M  == 128
M_ == 129
M2 == 130

Turn == {U, U_, U2, D, D_, D2, L, L_, L2, R, R_, R2, F, F_, F2, B, B_, B2, M, M_, M2}

\* Cube<Vec<Color>>::face_from_colors: colors is a sequence of nine colours,
\* colors[i + 1] being slot i
RECURSIVE face_from_colors_loop(_, _, _)
face_from_colors_loop(colors, i, face) ==
  IF i >= Len(colors) THEN face
  ELSE face_from_colors_loop(colors, i + 1, Or[face, Shl(colors[i + 1], 3 * i)])

face_from_colors(colors) == face_from_colors_loop(colors, 0, 0)

\* Cube<Vec<Color>>::pack
pack(cv) ==
  [ up    |-> face_from_colors(cv.up),
    down  |-> face_from_colors(cv.down),
    left  |-> face_from_colors(cv.left),
    right |-> face_from_colors(cv.right),
    front |-> face_from_colors(cv.front),
    back  |-> face_from_colors(cv.back) ]

\* Cube::solved_state: yellow on top, green in front
solved_state ==
  [ up    |-> 38347922,
    down  |-> 19173961,
    left  |-> 95869805,
    right |-> 115043766,
    front |-> 57521883,
    back  |-> 76695844 ]

\* a faulty matches_face: a Grey slot of the pattern is not a wildcard
matches_faceExact(face, pat) == face = pat

\* Cube::matches_face
matches_face(face, pat) ==
  LET grey == Grey IN
  /\ (And[pat, PIECE0] = grey \/ And[pat, PIECE0] = And[face, PIECE0])
  /\ (And[pat, PIECE1] = grey \/ And[pat, PIECE1] = And[face, PIECE1])
  /\ (And[pat, PIECE2] = grey \/ And[pat, PIECE2] = And[face, PIECE2])
  /\ (And[pat, PIECE3] = grey \/ And[pat, PIECE3] = And[face, PIECE3])
  /\ (And[pat, PIECE4] = grey \/ And[pat, PIECE4] = And[face, PIECE4])
  /\ (And[pat, PIECE5] = grey \/ And[pat, PIECE5] = And[face, PIECE5])
  /\ (And[pat, PIECE6] = grey \/ And[pat, PIECE6] = And[face, PIECE6])
  /\ (And[pat, PIECE7] = grey \/ And[pat, PIECE7] = And[face, PIECE7])
  /\ (And[pat, PIECE8] = grey \/ And[pat, PIECE8] = And[face, PIECE8])

\* Cube::matches
matches(c, other) ==
  /\ And[c.up, other.up] = other.up
  /\ And[c.down, other.down] = other.down
  /\ And[c.left, other.left] = other.left
  /\ And[c.right, other.right] = other.right
  /\ And[c.front, other.front] = other.front
  /\ And[c.back, other.back] = other.back
  /\ matches_face(c.up, other.up)
  /\ matches_face(c.down, other.down)
  /\ matches_face(c.left, other.left)
  /\ matches_face(c.right, other.right)
  /\ matches_face(c.front, other.front)
  /\ matches_face(c.back, other.back)

\* a faulty rotate_face: the face is flipped over its diagonal 0-4-8
rotate_faceFlipped(face) ==
  LET part048 == And[face, Or[Or[PIECE0, PIECE4], PIECE8]]
      part15 == Shl(And[face, Or[PIECE1, PIECE5]], SHIFT2)
      part2 == Shl(And[face, PIECE2], SHIFT4)
      part37 == Shr(And[face, Or[PIECE3, PIECE7]], SHIFT2)
      part6 == Shr(And[face, PIECE6], SHIFT4)
  IN  Or[Or[Or[Or[part048, part15], part2], part37], part6]

\* Cube::rotate_face, rotate_face_, rotate_face2 and the 21 move operators
rotate_face(face) ==
  LET part4 == And[face, PIECE4]
      part05 == Shl(And[face, Or[PIECE0, PIECE5]], SHIFT2)
      part1 == Shl(And[face, PIECE1], SHIFT4)
      part2 == Shl(And[face, PIECE2], SHIFT6)
      part38 == Shr(And[face, Or[PIECE3, PIECE8]], SHIFT2)
      part7 == Shr(And[face, PIECE7], SHIFT4)
      part6 == Shr(And[face, PIECE6], SHIFT6)
  IN  Or[Or[Or[Or[Or[Or[part4, part05], part1], part2], part38], part7], part6]

\* a faulty rotate_face_: the face is turned clockwise
rotate_face_AsClockwise(face) == rotate_face(face)

rotate_face_(face) ==
  LET part4 == And[face, PIECE4]
      part16 == Shl(And[face, Or[PIECE1, PIECE6]], SHIFT2)
      part3 == Shl(And[face, PIECE3], SHIFT4)
      part0 == Shl(And[face, PIECE0], SHIFT6)
      part27 == Shr(And[face, Or[PIECE2, PIECE7]], SHIFT2)
      part5 == Shr(And[face, PIECE5], SHIFT4)
      part8 == Shr(And[face, PIECE8], SHIFT6)
  IN  Or[Or[Or[Or[Or[Or[part4, part16], part3], part0], part27], part5], part8]

\* a faulty rotate_face2: the term of the centre is left out
rotate_face2LosesCentre(face) == AndNot[rotate_face(rotate_face(face)), PIECE4]

rotate_face2(face) ==
  Or[Or[Or[Or[Or[Or[Or[Or[Shl(And[face, PIECE0], SHIFT8),
                          Shl(And[face, PIECE1], SHIFT6)],
                       Shl(And[face, PIECE2], SHIFT4)],
                    Shl(And[face, PIECE3], SHIFT2)],
                 And[face, PIECE4]],
              Shr(And[face, PIECE5], SHIFT2)],
           Shr(And[face, PIECE6], SHIFT4)],
        Shr(And[face, PIECE7], SHIFT6)],
     Shr(And[face, PIECE8], SHIFT8)]

right(c) ==
  [ up |-> Or[AndNot[c.up, MASK258], And[c.front, MASK258]],
    down |-> Or[AndNot[c.down, MASK258], And[c.back, MASK258]],
    left |-> c.left,
    right |-> rotate_face(c.right),
    front |-> Or[AndNot[c.front, MASK258], And[c.down, MASK258]],
    back |-> Or[AndNot[c.back, MASK258], And[c.up, MASK258]] ]

\* a faulty right_: a half turn
right_AsHalfTurn(c) == right(right(c))

right_(c) ==
  [ up |-> Or[AndNot[c.up, MASK258], And[c.back, MASK258]],
    down |-> Or[AndNot[c.down, MASK258], And[c.front, MASK258]],
    left |-> c.left,
    right |-> rotate_face_(c.right),
    front |-> Or[AndNot[c.front, MASK258], And[c.up, MASK258]],
    back |-> Or[AndNot[c.back, MASK258], And[c.down, MASK258]] ]

right2(c) ==
  [ up |-> Or[AndNot[c.up, MASK258], And[c.down, MASK258]],
    down |-> Or[AndNot[c.down, MASK258], And[c.up, MASK258]],
    left |-> c.left,
    right |-> rotate_face2(c.right),
    front |-> Or[AndNot[c.front, MASK258], And[c.back, MASK258]],
    back |-> Or[AndNot[c.back, MASK258], And[c.front, MASK258]] ]

left(c) ==
  [ up |-> Or[AndNot[c.up, MASK036], And[c.back, MASK036]],
    down |-> Or[AndNot[c.down, MASK036], And[c.front, MASK036]],
    left |-> rotate_face(c.left),
    right |-> c.right,
    front |-> Or[AndNot[c.front, MASK036], And[c.up, MASK036]],
    back |-> Or[AndNot[c.back, MASK036], And[c.down, MASK036]] ]

left_(c) ==
  [ up |-> Or[AndNot[c.up, MASK036], And[c.front, MASK036]],
    down |-> Or[AndNot[c.down, MASK036], And[c.back, MASK036]],
    left |-> rotate_face_(c.left),
    right |-> c.right,
    front |-> Or[AndNot[c.front, MASK036], And[c.down, MASK036]],
    back |-> Or[AndNot[c.back, MASK036], And[c.up, MASK036]] ]

left2(c) ==
  [ up |-> Or[AndNot[c.up, MASK036], And[c.down, MASK036]],
    down |-> Or[AndNot[c.down, MASK036], And[c.up, MASK036]],
    left |-> rotate_face2(c.left),
    right |-> c.right,
    front |-> Or[AndNot[c.front, MASK036], And[c.back, MASK036]],
    back |-> Or[AndNot[c.back, MASK036], And[c.front, MASK036]] ]

\* a faulty middle: the layer of right is moved instead of the middle one
middleCopiedFromRight(c) == [right(c) EXCEPT !.right = c.right]

middle(c) ==
  [ up |-> Or[AndNot[c.up, MASK147], And[c.back, MASK147]],
    down |-> Or[AndNot[c.down, MASK147], And[c.front, MASK147]],
    left |-> c.left,
    right |-> c.right,
    front |-> Or[AndNot[c.front, MASK147], And[c.up, MASK147]],
    back |-> Or[AndNot[c.back, MASK147], And[c.down, MASK147]] ]

middle_(c) ==
  [ up |-> Or[AndNot[c.up, MASK147], And[c.front, MASK147]],
    down |-> Or[AndNot[c.down, MASK147], And[c.back, MASK147]],
    left |-> c.left,
    right |-> c.right,
    front |-> Or[AndNot[c.front, MASK147], And[c.down, MASK147]],
    back |-> Or[AndNot[c.back, MASK147], And[c.up, MASK147]] ]

\* a faulty middle2: a quarter turn
middle2AsQuarter(c) == middle(c)

middle2(c) ==
  [ up |-> Or[AndNot[c.up, MASK147], And[c.down, MASK147]],
    down |-> Or[AndNot[c.down, MASK147], And[c.up, MASK147]],
    left |-> c.left,
    right |-> c.right,
    front |-> Or[AndNot[c.front, MASK147], And[c.back, MASK147]],
    back |-> Or[AndNot[c.back, MASK147], And[c.front, MASK147]] ]

front(c) ==
  LET right_to_down == Or[Or[Shr(And[c.right, PIECE6], SHIFT4), Shr(And[c.right, PIECE7], SHIFT6)], Shr(And[c.right, PIECE8], SHIFT8)]
      down_to_left == Or[Or[Shl(And[c.down, PIECE2], SHIFT4), Shl(And[c.down, PIECE1], SHIFT6)], Shl(And[c.down, PIECE0], SHIFT8)]
  IN  [ up |-> Or[AndNot[c.up, MASK678], And[c.left, MASK678]],
      down |-> Or[AndNot[c.down, MASK012], right_to_down],
      left |-> Or[AndNot[c.left, MASK678], down_to_left],
      right |-> Or[AndNot[c.right, MASK678], And[c.up, MASK678]],
      front |-> rotate_face(c.front),
      back |-> c.back ]

\* a faulty front_: the row taken from the right face is written over the
\* up face's row without clearing it
front_OverOldRow(c) ==
  LET left_to_down == Or[Or[Shr(And[c.left, PIECE6], SHIFT4), Shr(And[c.left, PIECE7], SHIFT6)], Shr(And[c.left, PIECE8], SHIFT8)]
      down_to_right == Or[Or[Shl(And[c.down, PIECE2], SHIFT4), Shl(And[c.down, PIECE1], SHIFT6)], Shl(And[c.down, PIECE0], SHIFT8)]
  IN  [ up |-> Or[c.up, And[c.right, MASK678]],
      down |-> Or[AndNot[c.down, MASK012], left_to_down],
      left |-> Or[AndNot[c.left, MASK678], And[c.up, MASK678]],
      right |-> Or[AndNot[c.right, MASK678], down_to_right],
      front |-> rotate_face_(c.front),
      back |-> c.back ]

front_(c) ==
  LET left_to_down == Or[Or[Shr(And[c.left, PIECE6], SHIFT4), Shr(And[c.left, PIECE7], SHIFT6)], Shr(And[c.left, PIECE8], SHIFT8)]
      down_to_right == Or[Or[Shl(And[c.down, PIECE2], SHIFT4), Shl(And[c.down, PIECE1], SHIFT6)], Shl(And[c.down, PIECE0], SHIFT8)]
  IN  [ up |-> Or[AndNot[c.up, MASK678], And[c.right, MASK678]],
      down |-> Or[AndNot[c.down, MASK012], left_to_down],
      left |-> Or[AndNot[c.left, MASK678], And[c.up, MASK678]],
      right |-> Or[AndNot[c.right, MASK678], down_to_right],
      front |-> rotate_face_(c.front),
      back |-> c.back ]

front2(c) ==
  LET up_to_down == Or[Or[Shr(And[c.up, PIECE6], SHIFT4), Shr(And[c.up, PIECE7], SHIFT6)], Shr(And[c.up, PIECE8], SHIFT8)]
      down_to_up == Or[Or[Shl(And[c.down, PIECE2], SHIFT4), Shl(And[c.down, PIECE1], SHIFT6)], Shl(And[c.down, PIECE0], SHIFT8)]
  IN  [ up |-> Or[AndNot[c.up, MASK678], down_to_up],
      down |-> Or[AndNot[c.down, MASK012], up_to_down],
      left |-> Or[AndNot[c.left, MASK678], And[c.right, MASK678]],
      right |-> Or[AndNot[c.right, MASK678], And[c.left, MASK678]],
      front |-> rotate_face2(c.front),
      back |-> c.back ]

back(c) ==
  LET down_to_right == Or[Or[Shr(And[c.down, PIECE6], SHIFT4), Shr(And[c.down, PIECE7], SHIFT6)], Shr(And[c.down, PIECE8], SHIFT8)]
      left_to_down == Or[Or[Shl(And[c.left, PIECE2], SHIFT4), Shl(And[c.left, PIECE1], SHIFT6)], Shl(And[c.left, PIECE0], SHIFT8)]
  IN  [ up |-> Or[AndNot[c.up, MASK012], And[c.right, MASK012]],
      down |-> Or[AndNot[c.down, MASK678], left_to_down],
      left |-> Or[AndNot[c.left, MASK012], And[c.up, MASK012]],
      right |-> Or[AndNot[c.right, MASK012], down_to_right],
      front |-> c.front,
      back |-> rotate_face(c.back) ]

back_(c) ==
  LET down_to_left == Or[Or[Shr(And[c.down, PIECE6], SHIFT4), Shr(And[c.down, PIECE7], SHIFT6)], Shr(And[c.down, PIECE8], SHIFT8)]
      right_to_down == Or[Or[Shl(And[c.right, PIECE2], SHIFT4), Shl(And[c.right, PIECE1], SHIFT6)], Shl(And[c.right, PIECE0], SHIFT8)]
  IN  [ up |-> Or[AndNot[c.up, MASK012], And[c.left, MASK012]],
      down |-> Or[AndNot[c.down, MASK678], right_to_down],
      left |-> Or[AndNot[c.left, MASK012], down_to_left],
      right |-> Or[AndNot[c.right, MASK012], And[c.up, MASK012]],
      front |-> c.front,
      back |-> rotate_face_(c.back) ]

back2(c) ==
  LET down_to_up == Or[Or[Shr(And[c.down, PIECE6], SHIFT4), Shr(And[c.down, PIECE7], SHIFT6)], Shr(And[c.down, PIECE8], SHIFT8)]
      up_to_down == Or[Or[Shl(And[c.up, PIECE2], SHIFT4), Shl(And[c.up, PIECE1], SHIFT6)], Shl(And[c.up, PIECE0], SHIFT8)]
  IN  [ up |-> Or[AndNot[c.up, MASK012], down_to_up],
      down |-> Or[AndNot[c.down, MASK678], up_to_down],
      left |-> Or[AndNot[c.left, MASK012], And[c.right, MASK012]],
      right |-> Or[AndNot[c.right, MASK012], And[c.left, MASK012]],
      front |-> c.front,
      back |-> rotate_face2(c.back) ]

\* a faulty up: the ring of the up layer moves, the up face stays as it is
upKeepsFace(c) ==
  LET right_to_front == Or[Or[Shl(And[c.right, PIECE0], SHIFT2), Shr(And[c.right, PIECE3], SHIFT2)], Shr(And[c.right, PIECE6], SHIFT6)]
      front_to_left == Or[Or[Shl(And[c.front, PIECE2], SHIFT6), Shl(And[c.front, PIECE1], SHIFT4)], Shl(And[c.front, PIECE0], SHIFT2)]
      left_to_back == Or[Or[Shr(And[c.left, PIECE8], SHIFT2), Shl(And[c.left, PIECE5], SHIFT2)], Shl(And[c.left, PIECE2], SHIFT6)]
      back_to_right == Or[Or[Shr(And[c.back, PIECE6], SHIFT6), Shr(And[c.back, PIECE7], SHIFT4)], Shr(And[c.back, PIECE8], SHIFT2)]
  IN  [ up |-> c.up,
      down |-> c.down,
      left |-> Or[AndNot[c.left, MASK258], front_to_left],
      right |-> Or[AndNot[c.right, MASK036], back_to_right],
      front |-> Or[AndNot[c.front, MASK012], right_to_front],
      back |-> Or[AndNot[c.back, MASK678], left_to_back] ]

up(c) ==
  LET right_to_front == Or[Or[Shl(And[c.right, PIECE0], SHIFT2), Shr(And[c.right, PIECE3], SHIFT2)], Shr(And[c.right, PIECE6], SHIFT6)]
      front_to_left == Or[Or[Shl(And[c.front, PIECE2], SHIFT6), Shl(And[c.front, PIECE1], SHIFT4)], Shl(And[c.front, PIECE0], SHIFT2)]
      left_to_back == Or[Or[Shr(And[c.left, PIECE8], SHIFT2), Shl(And[c.left, PIECE5], SHIFT2)], Shl(And[c.left, PIECE2], SHIFT6)]
      back_to_right == Or[Or[Shr(And[c.back, PIECE6], SHIFT6), Shr(And[c.back, PIECE7], SHIFT4)], Shr(And[c.back, PIECE8], SHIFT2)]
  IN  [ up |-> rotate_face(c.up),
      down |-> c.down,
      left |-> Or[AndNot[c.left, MASK258], front_to_left],
      right |-> Or[AndNot[c.right, MASK036], back_to_right],
      front |-> Or[AndNot[c.front, MASK012], right_to_front],
      back |-> Or[AndNot[c.back, MASK678], left_to_back] ]

\* a faulty up_: the counter-clockwise turn goes clockwise
up_WrongDirection(c) == up(c)

up_(c) ==
  LET right_to_back == Or[Or[Shl(And[c.right, PIECE0], SHIFT6), Shl(And[c.right, PIECE3], SHIFT4)], Shl(And[c.right, PIECE6], SHIFT2)]
      front_to_right == Or[Or[Shr(And[c.front, PIECE2], SHIFT2), Shl(And[c.front, PIECE1], SHIFT2)], Shl(And[c.front, PIECE0], SHIFT6)]
      left_to_front == Or[Or[Shr(And[c.left, PIECE8], SHIFT6), Shr(And[c.left, PIECE5], SHIFT4)], Shr(And[c.left, PIECE2], SHIFT2)]
      back_to_left == Or[Or[Shl(And[c.back, PIECE6], SHIFT2), Shr(And[c.back, PIECE7], SHIFT2)], Shr(And[c.back, PIECE8], SHIFT6)]
  IN  [ up |-> rotate_face_(c.up),
      down |-> c.down,
      left |-> Or[AndNot[c.left, MASK258], back_to_left],
      right |-> Or[AndNot[c.right, MASK036], front_to_right],
      front |-> Or[AndNot[c.front, MASK012], left_to_front],
      back |-> Or[AndNot[c.back, MASK678], right_to_back] ]

\* a faulty up2: on the up face a corner sticker and an edge sticker have
\* changed places
up2CornerToEdge(c) ==
  LET d == up(up(c))
  IN  [d EXCEPT !.up = Or[AndNot[d.up, Or[PIECE0, PIECE1]],
                          Or[Shl(And[d.up, PIECE0], 3), Shr(And[d.up, PIECE1], 3)]]]

\* a faulty up2: the front face is turned as well
up2TurnsFrontFace(c) ==
  LET d == up(up(c))
  IN  [d EXCEPT !.front = rotate_face(d.front)]

up2(c) ==
  LET right_to_left == Or[Or[Shl(And[c.right, PIECE0], SHIFT8), Shl(And[c.right, PIECE3], SHIFT2)], Shr(And[c.right, PIECE6], SHIFT4)]
      front_to_back == Or[Or[Shl(And[c.front, PIECE2], SHIFT4), Shl(And[c.front, PIECE1], SHIFT6)], Shl(And[c.front, PIECE0], SHIFT8)]
      left_to_right == Or[Or[Shr(And[c.left, PIECE8], SHIFT8), Shr(And[c.left, PIECE5], SHIFT2)], Shl(And[c.left, PIECE2], SHIFT4)]
      back_to_front == Or[Or[Shr(And[c.back, PIECE6], SHIFT4), Shr(And[c.back, PIECE7], SHIFT6)], Shr(And[c.back, PIECE8], SHIFT8)]
  IN  [ up |-> rotate_face2(c.up),
      down |-> c.down,
      left |-> Or[AndNot[c.left, MASK258], right_to_left],
      right |-> Or[AndNot[c.right, MASK036], left_to_right],
      front |-> Or[AndNot[c.front, MASK012], back_to_front],
      back |-> Or[AndNot[c.back, MASK678], front_to_back] ]

down(c) ==
  LET right_to_back == Or[Or[Shr(And[c.right, PIECE8], SHIFT6), Shr(And[c.right, PIECE5], SHIFT4)], Shr(And[c.right, PIECE2], SHIFT2)]
      front_to_right == Or[Or[Shl(And[c.front, PIECE6], SHIFT2), Shr(And[c.front, PIECE7], SHIFT2)], Shr(And[c.front, PIECE8], SHIFT6)]
      left_to_front == Or[Or[Shl(And[c.left, PIECE0], SHIFT6), Shl(And[c.left, PIECE3], SHIFT4)], Shl(And[c.left, PIECE6], SHIFT2)]
      back_to_left == Or[Or[Shr(And[c.back, PIECE2], SHIFT2), Shl(And[c.back, PIECE1], SHIFT2)], Shl(And[c.back, PIECE0], SHIFT6)]
  IN  [ up |-> c.up,
      down |-> rotate_face(c.down),
      left |-> Or[AndNot[c.left, MASK036], back_to_left],
      right |-> Or[AndNot[c.right, MASK258], front_to_right],
      front |-> Or[AndNot[c.front, MASK678], left_to_front],
      back |-> Or[AndNot[c.back, MASK012], right_to_back] ]

down_(c) ==
  LET back_to_right == Or[Or[Shl(And[c.back, PIECE2], SHIFT6), Shl(And[c.back, PIECE1], SHIFT4)], Shl(And[c.back, PIECE0], SHIFT2)]
      right_to_front == Or[Or[Shr(And[c.right, PIECE8], SHIFT2), Shl(And[c.right, PIECE5], SHIFT2)], Shl(And[c.right, PIECE2], SHIFT6)]
      front_to_left == Or[Or[Shr(And[c.front, PIECE6], SHIFT6), Shr(And[c.front, PIECE7], SHIFT4)], Shr(And[c.front, PIECE8], SHIFT2)]
      left_to_back == Or[Or[Shl(And[c.left, PIECE0], SHIFT2), Shr(And[c.left, PIECE3], SHIFT2)], Shr(And[c.left, PIECE6], SHIFT6)]
  IN  [ up |-> c.up,
      down |-> rotate_face_(c.down),
      left |-> Or[AndNot[c.left, MASK036], front_to_left],
      right |-> Or[AndNot[c.right, MASK258], back_to_right],
      front |-> Or[AndNot[c.front, MASK678], right_to_front],
      back |-> Or[AndNot[c.back, MASK012], left_to_back] ]

\* a faulty down2: the left face keeps its word
down2KeepsLeft(c) == [down(down(c)) EXCEPT !.left = c.left]

down2(c) ==
  LET left_to_right == Or[Or[Shl(And[c.left, PIECE0], SHIFT8), Shl(And[c.left, PIECE3], SHIFT2)], Shr(And[c.left, PIECE6], SHIFT4)]
      back_to_front == Or[Or[Shl(And[c.back, PIECE2], SHIFT4), Shl(And[c.back, PIECE1], SHIFT6)], Shl(And[c.back, PIECE0], SHIFT8)]
      right_to_left == Or[Or[Shr(And[c.right, PIECE8], SHIFT8), Shr(And[c.right, PIECE5], SHIFT2)], Shl(And[c.right, PIECE2], SHIFT4)]
      front_to_back == Or[Or[Shr(And[c.front, PIECE6], SHIFT4), Shr(And[c.front, PIECE7], SHIFT6)], Shr(And[c.front, PIECE8], SHIFT8)]
  IN  [ up |-> c.up,
      down |-> rotate_face2(c.down),
      left |-> Or[AndNot[c.left, MASK036], right_to_left],
      right |-> Or[AndNot[c.right, MASK258], left_to_right],
      front |-> Or[AndNot[c.front, MASK678], back_to_front],
      back |-> Or[AndNot[c.back, MASK012], front_to_back] ]

\* Cube::turn
turn(c, t) ==
  CASE t = U  -> up(c)
    [] t = U_ -> up_(c)
    [] t = U2 -> up2(c)
    [] t = D  -> down(c)
    [] t = D_ -> down_(c)
    [] t = D2 -> down2(c)
    [] t = L  -> left(c)
    [] t = L_ -> left_(c)
    [] t = L2 -> left2(c)
    [] t = R  -> right(c)
    [] t = R_ -> right_(c)
    [] t = R2 -> right2(c)
    [] t = F  -> front(c)
    [] t = F_ -> front_(c)
    [] t = F2 -> front2(c)
    [] t = B  -> back(c)
    [] t = B_ -> back_(c)
    [] t = B2 -> back2(c)
    [] t = M  -> middle(c)
    [] t = M_ -> middle_(c)
    [] t = M2 -> middle2(c)

(***************************************************************************)
(* The search.  search() runs on its own thread; at every depth it sends   *)
(* Depth(max_depth) and then runs one rayon task per allowed turn, each    *)
(* with its own clone of the Sender, and joins them.  The consumer holds   *)
(* the Receiver and may drop it at any moment.                             *)
(***************************************************************************)

\* largest max_depth whose Depth marker the model lets search send
MaxDepth == 2

\* a faulty AsU8: the cast keeps seven bits
AsU8SevenBits(t) == t % 128

\* as u8
AsU8(t) == t % 256

\* the start cubes, patterns and allowed-turn lists the model is run on
YellowUp ==
  [ up |-> solved_state.up, down |-> 0, left |-> 0, right |-> 0, front |-> 0, back |-> 0 ]

Scenario(s, p, a) == [start |-> s, pattern |-> p, allowed |-> a]

Scenarios ==
  { Scenario(turn(turn(solved_state, R), U), solved_state, <<U_, R_, R>>),
    Scenario(solved_state, YellowUp, <<U, D>>),
    Scenario(turn(solved_state, U2), solved_state, <<U>>),
    Scenario(turn(solved_state, U), solved_state, <<U, U_, U2>>),
    Scenario(solved_state, solved_state, <<U, U_, U2>>),
    Scenario(turn(solved_state, R), YellowUp, <<R_, D2>>),
    Scenario(turn(solved_state, M), solved_state, <<M, M_, M2>>),
    Scenario(turn(solved_state, F), solved_state, <<U, U_, U2>>),
    Scenario(solved_state, solved_state, <<>>) }

VARIABLES
  start,      \* search's argument cube
  pattern,    \* search's argument pattern
  allowed,    \* search's argument allowed_turns
  max_depth,  \* search's local max_depth
  pc,         \* where search() is: "send", "par" (inside for_each), "returned"
  rxOpen,     \* the Receiver of the channel has not been dropped
  sent,       \* the SearchResults the channel has accepted, in order
  wpc,        \* per task of the current for_each: "spawned", "running", "done"
  stack,      \* per task: the search_helper frames with a loop in progress
  history,    \* per task: its history buffer, indices 0..max_depth
  failed,     \* per task: one of its sends returned Err
  stats       \* per task: moves applied, match tests and sends attempted

\* The cube operations on their own, outside a search: a cube that is turned
\* move by move, and a cube and a pattern given to matches and missing_colors.
VARIABLES
  origin,     \* the cube before any move
  goal,       \* the pattern cube
  before,     \* the cube before the last move
  cur,        \* the cube now: self of turn, matches and missing_colors
  applied,    \* the moves applied to origin, in order
  matched,    \* <<r>> once matches has returned r, <<>> before
  missing     \* <<r>> once missing_colors has returned r, <<>> before

searchVars == <<start, pattern, allowed, max_depth, pc, rxOpen, sent,
                wpc, stack, history, failed, stats>>

VARIABLES
  colorArray, \* the colours handed to face_from_colors
  packed,     \* <<w>> once face_from_colors has returned the word w, <<>> before
  chunk       \* <<n, r>> once nth_chunk(n, w) has returned r, <<>> before

cubeVars == <<origin, goal, before, cur, applied, matched, missing>>

VARIABLES
  ui_from,        \* main's from, the cube of from_colors
  ui_to,          \* main's to, the cube of to_colors
  searching,      \* main's searching
  search_results, \* main's search_results, each with the thread that sent it
  algs,           \* the channel of algs_tx and algs_rx: its number, its queue
  threads,        \* the search threads spawned, in order
  uipc,           \* where the frame of the main loop is: "recv", "button"
  clicked         \* was_clicked() of the search button in the last frame drawn

packVars == <<colorArray, packed, chunk>>

VARIABLES
  trail,      \* the face word given, then the result of each rotation of it
  rotations   \* the names of the rotations applied, in order

uiVars == <<ui_from, ui_to, searching, search_results, algs, threads, uipc, clicked>>

faceVars == <<trail, rotations>>

vars == <<searchVars, cubeVars, packVars, uiVars, faceVars>>

Tasks == 1..Len(allowed)

\* enum SearchResult
DepthMsg(d) == [type |-> "Depth", depth |-> d, alg |-> <<>>]
AlgorithmMsg(a) == [type |-> "Algorithm", depth |-> 0, alg |-> a]

\* faulty variants of TakeHistory: the slice starts one entry late, is one
\* entry short, is one entry long
TakeHistoryShifted(h, depth) == [k \in 1..depth |-> h[k]]
TakeHistoryShort(h, depth) == [k \in 1..(depth - 1) |-> h[k - 1]]
TakeHistoryLong(h, depth) == [k \in 1..(depth + 1) |-> h[k - 1]]

\* history.iter().take(depth).collect()
TakeHistory(h, depth) == [k \in 1..depth |-> h[k - 1]]

\* faulty variants of Permitted: nothing is refused; only the very same move
\* is refused; the class mask is one bit too wide
PermittedNoPruning(t, last_turn) == Xor[AsU8(t), last_turn] >= 0
PermittedOtherMove(t, last_turn) == Xor[AsU8(t), last_turn] > 0
PermittedWideMask(t, last_turn) == Xor[AsU8(t), last_turn] > 7

\* the successor test of search_helper's loop: turn as u8 ^ last_turn > 0b11
Permitted(t, last_turn) == Xor[AsU8(t), last_turn] > 3

\* a faulty InitialMaxDepth: the loop starts at depth 0
InitialMaxDepthZero == 1 - 1

\* let mut max_depth = 1
InitialMaxDepth == 1

ZeroStats == [turns |-> 0, tests |-> 0, sends |-> 0]

\* no face word is rotated on its own
FaceIdle ==
  /\ trail = <<>>
  /\ rotations = <<>>

\* the UI is not running
UiIdle ==
  /\ ui_from = solved_state
  /\ ui_to = solved_state
  /\ searching = FALSE
  /\ search_results = <<>>
  /\ algs = [id |-> 0, buf |-> <<>>]
  /\ threads = <<>>
  /\ uipc = "recv"
  /\ clicked = FALSE

\* no face is packed or unpacked
PackIdle ==
  /\ colorArray = <<>>
  /\ packed = <<>>
  /\ chunk = <<>>

\* no cube operation is run outside the search
CubeIdle ==
  /\ origin = solved_state
  /\ goal = solved_state
  /\ before = solved_state
  /\ cur = solved_state
  /\ applied = <<>>
  /\ matched = <<>>
  /\ missing = <<>>

Init ==
  /\ \E s \in Scenarios :
       /\ start = s.start
       /\ pattern = s.pattern
       /\ allowed = s.allowed
  /\ max_depth = InitialMaxDepth
  /\ pc = "send"
  /\ rxOpen = TRUE
  /\ sent = <<>>
  /\ wpc = [w \in Tasks |-> "done"]
  /\ stack = [w \in Tasks |-> <<>>]
  /\ history = [w \in Tasks |-> <<>>]
  /\ failed = [w \in Tasks |-> FALSE]
  /\ stats = [w \in Tasks |-> ZeroStats]
  /\ CubeIdle
  /\ PackIdle
  /\ UiIdle
  /\ FaceIdle

\* tx.send(..) is Ok and appends to the channel while the Receiver is there,
\* and is Err once the Receiver has been dropped.

\* a faulty SendDepth: search returns at the first depth that follows a
\* solution instead of going on
SendDepthReturnsWhenFound ==
  /\ pc = "send"
  /\ rxOpen
  /\ max_depth <= MaxDepth
  /\ IF \E k \in DOMAIN sent : sent[k].type = "Algorithm"
       THEN /\ pc' = "returned"
            /\ UNCHANGED <<sent, wpc, stack, history, failed, stats>>
       ELSE /\ sent' = Append(sent, DepthMsg(max_depth))
            /\ pc' = "par"
            /\ wpc' = [w \in Tasks |-> "spawned"]
            /\ stack' = [w \in Tasks |-> <<>>]
            /\ history' = [w \in Tasks |-> <<>>]
            /\ failed' = [w \in Tasks |-> FALSE]
            /\ stats' = [w \in Tasks |-> ZeroStats]
  /\ UNCHANGED <<start, pattern, allowed, max_depth, rxOpen>>
  /\ UNCHANGED <<cubeVars, packVars, uiVars, faceVars>>

\* search(), top of the loop: tx.send(SearchResult::Depth(max_depth)) is Ok,
\* the tasks of this depth are created
SendDepth ==
  /\ pc = "send"
  /\ rxOpen
  /\ max_depth <= MaxDepth
  /\ sent' = Append(sent, DepthMsg(max_depth))
  /\ pc' = "par"
  /\ wpc' = [w \in Tasks |-> "spawned"]
  /\ stack' = [w \in Tasks |-> <<>>]
  /\ history' = [w \in Tasks |-> <<>>]
  /\ failed' = [w \in Tasks |-> FALSE]
  /\ stats' = [w \in Tasks |-> ZeroStats]
  /\ UNCHANGED <<start, pattern, allowed, max_depth, rxOpen>>
  /\ UNCHANGED <<cubeVars, packVars, uiVars, faceVars>>

\* a faulty SendDepthErr: the Err of the send is ignored and the depth is
\* searched all the same
SendDepthErrIgnored ==
  /\ pc = "send"
  /\ ~rxOpen
  /\ max_depth <= MaxDepth
  /\ pc' = "par"
  /\ wpc' = [w \in Tasks |-> "spawned"]
  /\ stack' = [w \in Tasks |-> <<>>]
  /\ history' = [w \in Tasks |-> <<>>]
  /\ failed' = [w \in Tasks |-> FALSE]
  /\ stats' = [w \in Tasks |-> ZeroStats]
  /\ UNCHANGED <<start, pattern, allowed, max_depth, rxOpen, sent>>
  /\ UNCHANGED <<cubeVars, packVars, uiVars, faceVars>>

\* search(), top of the loop: the send is Err(_) => return
SendDepthErr ==
  /\ pc = "send"
  /\ ~rxOpen
  /\ pc' = "returned"
  /\ UNCHANGED <<start, pattern, allowed, max_depth, rxOpen, sent,
                 wpc, stack, history, failed, stats>>
  /\ UNCHANGED <<cubeVars, packVars, uiVars, faceVars>>

\* One call search_helper(cube, last_turn, depth, ..) by task w, up to its
\* loop: rest is the caller's stack, h the history buffer, st the statistics
\* at the time of the call.
Call(w, rest, h, st, cube, last_turn, depth) ==
  IF depth > max_depth THEN
    /\ stack' = [stack EXCEPT ![w] = rest]
    /\ stats' = [stats EXCEPT ![w] = st]
    /\ UNCHANGED <<sent, failed>>
  ELSE IF depth = max_depth /\ matches(cube, pattern) THEN
    /\ stack' = [stack EXCEPT ![w] = rest]
    /\ stats' = [stats EXCEPT ![w] = [st EXCEPT !.tests = @ + 1, !.sends = @ + 1]]
    /\ IF rxOpen
         THEN /\ sent' = Append(sent, AlgorithmMsg(TakeHistory(h, depth)))
              /\ UNCHANGED failed
         ELSE /\ failed' = [failed EXCEPT ![w] = TRUE]
              /\ UNCHANGED sent
  ELSE
    /\ stack' = [stack EXCEPT ![w] =
                   Append(rest, [cube |-> cube, last_turn |-> last_turn,
                                 depth |-> depth, i |-> 1])]
    /\ stats' = [stats EXCEPT ![w] =
                   IF depth = max_depth THEN [st EXCEPT !.tests = @ + 1] ELSE st]
    /\ UNCHANGED <<sent, failed>>

\* a faulty TaskStart: the history buffer has max_depth entries
TaskStartShortBuffer(w) ==
  /\ pc = "par"
  /\ wpc[w] = "spawned"
  /\ LET t == allowed[w]
         h == [k \in 0..(max_depth - 1) |-> t]
     IN  \E cube \in {turn(start, t)} :
           /\ history' = [history EXCEPT ![w] = h]
           /\ Call(w, <<>>, h, [stats[w] EXCEPT !.turns = @ + 1], cube, AsU8(t), 1)
  /\ wpc' = [wpc EXCEPT ![w] = IF stack'[w] = <<>> THEN "done" ELSE "running"]
  /\ UNCHANGED <<start, pattern, allowed, max_depth, pc, rxOpen>>
  /\ UNCHANGED <<cubeVars, packVars, uiVars, faceVars>>

\* the for_each closure of task w: the history buffer, the root move and the
\* call of search_helper at depth 1
TaskStart(w) ==
  /\ pc = "par"
  /\ wpc[w] = "spawned"
  /\ LET t == allowed[w]
         h == [k \in 0..max_depth |-> t]
     IN  \E cube \in {turn(start, t)} :
           /\ history' = [history EXCEPT ![w] = h]
           /\ Call(w, <<>>, h, [stats[w] EXCEPT !.turns = @ + 1], cube, AsU8(t), 1)
  /\ wpc' = [wpc EXCEPT ![w] = IF stack'[w] = <<>> THEN "done" ELSE "running"]
  /\ UNCHANGED <<start, pattern, allowed, max_depth, pc, rxOpen>>
  /\ UNCHANGED <<cubeVars, packVars, uiVars, faceVars>>

\* one iteration of search_helper's loop over allowed_turns in the innermost
\* frame of task w, the recursive call included
Iterate(w) ==
  /\ pc = "par"
  /\ wpc[w] = "running"
  /\ LET fr == stack[w][Len(stack[w])]
         below == SubSeq(stack[w], 1, Len(stack[w]) - 1)
     IN  /\ fr.i <= Len(allowed)
         /\ LET t == allowed[fr.i]
                rest == Append(below, [fr EXCEPT !.i = @ + 1])
            IN  IF Permitted(t, fr.last_turn)
                  THEN LET h == [history[w] EXCEPT ![fr.depth] = t]
                       IN  \E cube \in {turn(fr.cube, t)} :
                             /\ history' = [history EXCEPT ![w] = h]
                             /\ Call(w, rest, h, [stats[w] EXCEPT !.turns = @ + 1],
                                     cube, AsU8(t), fr.depth + 1)
                  ELSE /\ stack' = [stack EXCEPT ![w] = rest]
                       /\ UNCHANGED <<history, sent, failed, stats>>
  /\ UNCHANGED <<start, pattern, allowed, max_depth, pc, rxOpen, wpc>>
  /\ UNCHANGED <<cubeVars, packVars, uiVars, faceVars>>

\* search_helper's loop is over: the innermost frame of task w returns
Return(w) ==
  /\ pc = "par"
  /\ wpc[w] = "running"
  /\ stack[w][Len(stack[w])].i > Len(allowed)
  /\ stack' = [stack EXCEPT ![w] = SubSeq(@, 1, Len(@) - 1)]
  /\ wpc' = [wpc EXCEPT ![w] = IF Len(stack[w]) = 1 THEN "done" ELSE "running"]
  /\ UNCHANGED <<start, pattern, allowed, max_depth, pc, rxOpen, sent,
                 history, failed, stats>>
  /\ UNCHANGED <<cubeVars, packVars, uiVars, faceVars>>

\* a faulty Join: the depth after the one just searched is skipped
JoinSkipsDepth ==
  /\ pc = "par"
  /\ \A w \in Tasks : wpc[w] = "done"
  /\ max_depth' = max_depth + 2
  /\ pc' = "send"
  /\ UNCHANGED <<start, pattern, allowed, rxOpen, sent,
                 wpc, stack, history, failed, stats>>
  /\ UNCHANGED <<cubeVars, packVars, uiVars, faceVars>>

\* a faulty Join: for_each returns when the first task has finished
JoinWithoutWaiting ==
  /\ pc = "par"
  /\ \E w \in Tasks : wpc[w] = "done"
  /\ max_depth' = max_depth + 1
  /\ pc' = "send"
  /\ UNCHANGED <<start, pattern, allowed, rxOpen, sent,
                 wpc, stack, history, failed, stats>>
  /\ UNCHANGED <<cubeVars, packVars, uiVars, faceVars>>

\* for_each returns once every task has finished; max_depth += 1
Join ==
  /\ pc = "par"
  /\ \A w \in Tasks : wpc[w] = "done"
  /\ max_depth' = max_depth + 1
  /\ pc' = "send"
  /\ UNCHANGED <<start, pattern, allowed, rxOpen, sent,
                 wpc, stack, history, failed, stats>>
  /\ UNCHANGED <<cubeVars, packVars, uiVars, faceVars>>

\* the consumer drops the Receiver
Drop ==
  /\ rxOpen
  /\ rxOpen' = FALSE
  /\ UNCHANGED <<start, pattern, allowed, max_depth, pc, sent,
                 wpc, stack, history, failed, stats>>
  /\ UNCHANGED <<cubeVars, packVars, uiVars, faceVars>>

Next ==
  \/ SendDepth
  \/ SendDepthErr
  \/ \E w \in Tasks : TaskStart(w)
  \/ \E w \in Tasks : Iterate(w)
  \/ \E w \in Tasks : Return(w)
  \/ Join
  \/ Drop

Spec == Init /\ [][Next]_vars

\* a step of the search thread or of one of its tasks
SearchStep ==
  \/ SendDepth
  \/ SendDepthErr
  \/ \E w \in Tasks : TaskStart(w) \/ Iterate(w) \/ Return(w)
  \/ Join

\* The search thread and the rayon pool keep running while they have work;
\* nothing makes the consumer drop the Receiver.
FairSpec == Spec /\ WF_vars(SearchStep)


(***************************************************************************)
(* The search with every move allowed, as the UI lists them.  With 21      *)
(* tasks the pool is taken to have one worker thread: for_each then runs   *)
(* the tasks one after the other, in the order of allowed_turns.  The      *)
(* tasks share nothing but the channel, so what a task sends is the same   *)
(* under every schedule.                                                   *)
(***************************************************************************)

\* largest max_depth whose tasks AllMovesSpec runs
AllMovesDepth == 1

\* main's allowed_turns with every entry switched on
AllMoves ==
  <<U, U_, U2, D, D_, D2, L, L_, L2, R, R_, R2, F, F_, F2, B, B_, B2, M, M_, M2>>

AllMovesInit ==
  /\ start = turn(solved_state, R)
  /\ pattern = solved_state
  /\ allowed = AllMoves
  /\ max_depth = InitialMaxDepth
  /\ pc = "send"
  /\ rxOpen = TRUE
  /\ sent = <<>>
  /\ wpc = [w \in Tasks |-> "done"]
  /\ stack = [w \in Tasks |-> <<>>]
  /\ history = [w \in Tasks |-> <<>>]
  /\ failed = [w \in Tasks |-> FALSE]
  /\ stats = [w \in Tasks |-> ZeroStats]
  /\ CubeIdle
  /\ PackIdle
  /\ UiIdle
  /\ FaceIdle

\* the one worker thread takes task w when the tasks before it are done
TaskStartInOrder(w) ==
  /\ \A v \in 1..(w - 1) : wpc[v] = "done"
  /\ TaskStart(w)

AllMovesNext ==
  \/ max_depth <= AllMovesDepth /\ SendDepth
  \/ SendDepthErr
  \/ \E w \in Tasks : TaskStartInOrder(w)
  \/ \E w \in Tasks : Iterate(w)
  \/ \E w \in Tasks : Return(w)
  \/ Join
  \/ Drop

AllMovesSpec == AllMovesInit /\ [][AllMovesNext]_vars

(***************************************************************************)
(* The colour inventory: colors_in_face, colors and missing_colors.  The   *)
(* [u8; 6] arrays are functions on 0..5; a count is at most 30.            *)
(***************************************************************************)

\* Cube::faces
faces(c) == <<c.up, c.down, c.left, c.right, c.front, c.back>>

\* [0; 6]
Zero6 == [i \in 0..5 |-> 0]

\* one of the two loops of colors_in_face: over the slots listed, the counter
\* of a slot's colour goes up unless the slot is Grey
RECURSIVE colors_in_face_loop(_, _, _, _)
colors_in_face_loop(face, slots, k, counts) ==
  IF k > Len(slots) THEN counts
  ELSE LET col == And[Shr(face, 3 * slots[k]), 7]
       IN  colors_in_face_loop(face, slots, k + 1,
             IF col > 0 THEN [counts EXCEPT ![col - 1] = @ + 1] ELSE counts)

\* Cube::colors_in_face: <<corners, edges>>
colors_in_face(face) ==
  << colors_in_face_loop(face, <<0, 2, 6, 8>>, 1, Zero6),
     colors_in_face_loop(face, <<1, 3, 4, 5, 7>>, 1, Zero6) >>

\* the closure add of Cube::colors
add(xss, xs) == [i \in 0..5 |-> xss[i] + xs[i]]

\* the fold of Cube::colors over the six faces
RECURSIVE colors_fold(_, _, _)
colors_fold(fs, k, acc) ==
  IF k > Len(fs) THEN acc
  ELSE LET cs_es == colors_in_face(fs[k])
       IN  colors_fold(fs, k + 1, << add(acc[1], cs_es[1]), add(acc[2], cs_es[2]) >>)

\* Cube::colors: <<corners, edges>> summed over the faces
colors(c) == colors_fold(faces(c), 1, <<Zero6, Zero6>>)

\* a faulty is_missing: the edge counts are not looked at
is_missingCornersOnly(from, to, i) == from[1][i] < to[1][i]

\* the test of missing_colors' loop:
\* from_corners[i] < to_corners[i] || from_edges[i] < to_edges[i]
is_missing(from, to, i) == from[1][i] < to[1][i] \/ from[2][i] < to[2][i]

\* the loop of missing_colors over [White, Yellow, Green, Blue, Red, Orange]
RECURSIVE missing_colors_loop(_, _, _, _, _)
missing_colors_loop(list, k, from, to, result) ==
  IF k > Len(list) THEN result
  ELSE missing_colors_loop(list, k + 1, from, to,
         IF is_missing(from, to, list[k] - 1)
           THEN Append(result, list[k]) ELSE result)

\* Cube::missing_colors
missing_colors(c, pat) ==
  missing_colors_loop(<<White, Yellow, Green, Blue, Red, Orange>>, 1,
                      colors(c), colors(pat), <<>>)

(***************************************************************************)
(* The cube operations run on their own.  TurnSpec turns a cube move by    *)
(* move; MatchSpec gives a cube and a pattern to matches and to            *)
(* missing_colors, as the UI does before it starts a search.               *)
(***************************************************************************)

\* largest number of moves TurnSpec applies to a cube
MaxMoves == 2

\* the colour of slot i (0..8) of every face of the k-th marked cube: the
\* k-th base-7 digit of i, as a colour code
MarkColor(i, k) == (i \div (7 ^ k)) % 7

MarkFace(k) == [i \in 1..9 |-> MarkColor(i - 1, k)]

\* two cubes, with Grey stickers, that together tell the nine slots of a face
\* from one another; the solved cube tells the faces from one another
Marked(k) ==
  pack([ up |-> MarkFace(k), down |-> MarkFace(k), left |-> MarkFace(k),
         right |-> MarkFace(k), front |-> MarkFace(k), back |-> MarkFace(k) ])

\* the pattern of Grey stickers only
AllGrey == [ up |-> 0, down |-> 0, left |-> 0, right |-> 0, front |-> 0, back |-> 0 ]

\* a pattern with ten Yellow corner stickers and nothing else
CornersYellow == <<Yellow, Grey, Yellow, Grey, Grey, Grey, Yellow, Grey, Yellow>>
NoColors == <<Grey, Grey, Grey, Grey, Grey, Grey, Grey, Grey, Grey>>
TenYellowCorners ==
  pack([ up |-> CornersYellow, down |-> CornersYellow,
         left |-> <<Yellow, Grey, Yellow, Grey, Grey, Grey, Grey, Grey, Grey>>,
         right |-> NoColors, front |-> NoColors, back |-> NoColors ])

\* a pattern with five Yellow stickers on the centre and the edges of up,
\* and one more on an edge of front
SixYellowEdges ==
  pack([ up |-> <<Grey, Yellow, Grey, Yellow, Yellow, Yellow, Grey, Yellow, Grey>>,
         down |-> NoColors, left |-> NoColors, right |-> NoColors,
         front |-> <<Grey, Yellow, Grey, Grey, Grey, Grey, Grey, Grey, Grey>>,
         back |-> NoColors ])

\* a pattern with one White sticker, at slot 0 of front: on the solved cube
\* the bitwise pre-test lets it pass (Green & White == White)
WhiteOnFront ==
  pack([ up |-> NoColors, down |-> NoColors, left |-> NoColors, right |-> NoColors,
         front |-> <<White, Grey, Grey, Grey, Grey, Grey, Grey, Grey, Grey>>,
         back |-> NoColors ])

\* the cubes and patterns TurnSpec starts from
CubeScenarios ==
  { [start |-> solved_state, pattern |-> YellowUp],
    [start |-> turn(solved_state, M), pattern |-> solved_state],
    [start |-> Marked(0), pattern |-> AllGrey],
    [start |-> Marked(1), pattern |-> Marked(1)] }

\* no search is running
SearchIdle ==
  /\ start = solved_state
  /\ pattern = solved_state
  /\ allowed = <<>>
  /\ max_depth = InitialMaxDepth
  /\ pc = "returned"
  /\ rxOpen = FALSE
  /\ sent = <<>>
  /\ wpc = <<>>
  /\ stack = <<>>
  /\ history = <<>>
  /\ failed = <<>>
  /\ stats = <<>>

TurnInit ==
  /\ \E sc \in CubeScenarios :
       /\ origin = sc.start
       /\ goal = sc.pattern
       /\ before = sc.start
       /\ cur = sc.start
  /\ applied = <<>>
  /\ matched = <<>>
  /\ missing = <<>>
  /\ SearchIdle
  /\ PackIdle
  /\ UiIdle
  /\ FaceIdle

\* cube = cube.turn(t)
TurnStep(t) ==
  /\ Len(applied) < MaxMoves
  /\ before' = cur
  /\ cur' = turn(cur, t)
  /\ applied' = Append(applied, t)
  /\ UNCHANGED <<origin, goal, matched, missing>>
  /\ UNCHANGED <<searchVars, packVars, uiVars, faceVars>>

TurnNext == \E t \in Turn : TurnStep(t)

TurnSpec == TurnInit /\ [][TurnNext]_vars

\* the cubes and the patterns MatchSpec draws from
SampleCubes ==
  { solved_state, turn(solved_state, R), turn(turn(solved_state, M), U),
    Marked(0), Marked(1), turn(Marked(0), F), YellowUp, AllGrey }

SamplePatterns ==
  { AllGrey, YellowUp, solved_state, turn(solved_state, R),
    TenYellowCorners, SixYellowEdges, WhiteOnFront, Marked(1) }

MatchInit ==
  /\ origin \in SampleCubes
  /\ cur = origin
  /\ before = origin
  /\ goal \in SamplePatterns
  /\ applied = <<>>
  /\ matched = <<>>
  /\ missing = <<>>
  /\ SearchIdle
  /\ PackIdle
  /\ UiIdle
  /\ FaceIdle

\* cur.matches(&goal)
CallMatches ==
  /\ matched = <<>>
  /\ matched' = <<matches(cur, goal)>>
  /\ UNCHANGED <<origin, goal, before, cur, applied, missing>>
  /\ UNCHANGED <<searchVars, packVars, uiVars, faceVars>>

\* cur.missing_colors(&goal)
CallMissingColors ==
  /\ missing = <<>>
  /\ missing' = <<missing_colors(cur, goal)>>
  /\ UNCHANGED <<origin, goal, before, cur, applied, matched>>
  /\ UNCHANGED <<searchVars, packVars, uiVars, faceVars>>

MatchNext == CallMatches \/ CallMissingColors

MatchSpec == MatchInit /\ [][MatchNext]_vars

(***************************************************************************)
(* Packing a face and reading its slots back.                              *)
(***************************************************************************)

\* nth_chunk's last arm: panic!("Invalid chunk ..")
Panic == 0 - 1

\* a faulty nth_chunk: the chunk is taken two bits wide
nth_chunkTwoBits(n, face) ==
  LET x == And[Shr(face, n * 3), 3]
  IN  IF x <= Orange THEN x ELSE Panic

\* nth_chunk: the colour whose code is (face >> (n * 3)) & 0b111
nth_chunk(n, face) ==
  LET x == And[Shr(face, n * 3), 7]
  IN  IF x <= Orange THEN x ELSE Panic

\* enum Color
Color == {Grey, White, Yellow, Green, Blue, Red, Orange}

\* nine stickers of colour a, but for colour b in slot p
OneOff(a, b, p) == [i \in 1..9 |-> IF i = p + 1 THEN b ELSE a]

\* the arrays of nine colours the model packs
SampleArrays ==
  {OneOff(a, b, p) : a \in Color, b \in Color, p \in 0..8}
    \cup {MarkFace(0), MarkFace(1)}

PackInit ==
  /\ colorArray \in SampleArrays
  /\ packed = <<>>
  /\ chunk = <<>>
  /\ SearchIdle
  /\ CubeIdle
  /\ UiIdle
  /\ FaceIdle

\* Cube::<Vec<Color>>::face_from_colors(&colorArray)
CallFaceFromColors ==
  /\ packed = <<>>
  /\ packed' = <<face_from_colors(colorArray)>>
  /\ UNCHANGED <<colorArray, chunk>>
  /\ UNCHANGED <<searchVars, cubeVars, uiVars, faceVars>>

\* nth_chunk(n, w) on the packed word
CallNthChunk(n) ==
  /\ packed # <<>>
  /\ chunk' = <<n, nth_chunk(n, packed[1])>>
  /\ UNCHANGED <<colorArray, packed>>
  /\ UNCHANGED <<searchVars, cubeVars, uiVars, faceVars>>

PackNext == CallFaceFromColors \/ \E n \in 0..8 : CallNthChunk(n)

PackSpec == PackInit /\ [][PackNext]_vars

(***************************************************************************)
(* The main loop of the UI: each frame takes at most one result from the   *)
(* channel, then draws the search button and handles its click.  A search  *)
(* thread is followed by what it does to its Sender: the Depth marker at   *)
(* the top of search's loop, the Algorithms of its tasks, the join.  The    *)
(* Receiver of a channel lives as long as algs_rx is that channel's, so a  *)
(* send is Ok exactly when the Sender is of the channel algs holds.        *)
(***************************************************************************)

\* largest number of search threads the UI is followed to spawn
MaxSearches == 2

\* largest max_depth a search thread of the UI is followed to
UiDepth == 1

\* the cubes the user is taken to paint
UiFrom == {solved_state, Marked(0)}
UiTo == {solved_state, YellowUp}

\* from.missing_colors(&to), worked out once for each pair of painted cubes
UiMissingColors ==
  [f \in UiFrom |-> [t \in UiTo |-> missing_colors(f, t)]]

\* a SearchResult in the channel, with the thread whose Sender sent it; of
\* an Algorithm only the length is kept
UiResult(k, type, d) == [by |-> k, type |-> type, depth |-> d]

UiInit ==
  /\ ui_from = solved_state
  /\ ui_to = solved_state
  /\ searching = FALSE
  /\ search_results = <<>>
  /\ algs = [id |-> 0, buf |-> <<>>]
  /\ threads = <<>>
  /\ uipc = "recv"
  /\ clicked = FALSE
  /\ SearchIdle
  /\ CubeIdle
  /\ PackIdle
  /\ FaceIdle

\* match algs_rx.try_recv() { Ok(res) => search_results.push(res), Err(_) => {} }
UiTryRecv ==
  /\ uipc = "recv"
  /\ IF algs.buf # <<>>
       THEN /\ search_results' = Append(search_results, Head(algs.buf))
            /\ algs' = [algs EXCEPT !.buf = Tail(@)]
       ELSE UNCHANGED <<search_results, algs>>
  /\ uipc' = "button"
  /\ UNCHANGED <<ui_from, ui_to, searching, threads, clicked>>
  /\ UNCHANGED <<searchVars, cubeVars, packVars, faceVars>>

\* a faulty Stop: the channel is kept
StopKeepsChannel ==
  /\ searching' = FALSE
  /\ UNCHANGED <<algs, search_results, threads>>

\* the click on "Stop": searching = false, algs_tx and algs_rx are replaced
\* by a new channel's, which drops the Receiver of the old one
Stop ==
  /\ searching' = FALSE
  /\ algs' = [id |-> algs.id + 1, buf |-> <<>>]
  /\ UNCHANGED <<search_results, threads>>

\* a faulty StartSearch: missing_colors is not looked at
StartSearchUnchecked ==
  /\ searching' = TRUE
  /\ search_results' = <<>>
  /\ threads' = Append(threads, [tx |-> algs.id, from |-> ui_from, to |-> ui_to,
                                 pc |-> "send", max_depth |-> InitialMaxDepth,
                                 found |-> FALSE])
  /\ UNCHANGED algs

\* the click on "Search": if missing_colors is empty, searching = true, the
\* results are cleared and a thread is spawned on search_helper with from,
\* to and a clone of algs_tx
StartSearch ==
  IF UiMissingColors[ui_from][ui_to] = <<>>
    THEN /\ searching' = TRUE
         /\ search_results' = <<>>
         /\ threads' = Append(threads, [tx |-> algs.id, from |-> ui_from, to |-> ui_to,
                                        pc |-> "send", max_depth |-> InitialMaxDepth,
                                        found |-> FALSE])
         /\ UNCHANGED algs
    ELSE UNCHANGED <<searching, search_results, threads, algs>>

\* the rest of the frame: the search button, clicked or not, and then the
\* user's painting of the two cubes
UiButton(click, f, t) ==
  /\ uipc = "button"
  /\ clicked' = click
  /\ IF click
       THEN IF searching
              THEN Stop
              ELSE Len(threads) < MaxSearches /\ StartSearch
       ELSE UNCHANGED <<searching, search_results, threads, algs>>
  /\ ui_from' = f
  /\ ui_to' = t
  /\ uipc' = "recv"
  /\ UNCHANGED <<searchVars, cubeVars, packVars, faceVars>>

\* thread k's Sender is of the channel whose Receiver main holds
ReceiverAlive(k) == threads[k].tx = algs.id

\* search in thread k, top of the loop: tx.send(Depth(max_depth)), Err => return
ThreadSendDepth(k) ==
  /\ threads[k].pc = "send"
  /\ threads[k].max_depth <= UiDepth
  /\ IF ReceiverAlive(k)
       THEN /\ algs' = [algs EXCEPT !.buf =
                          Append(@, UiResult(k, "Depth", threads[k].max_depth))]
            /\ threads' = [threads EXCEPT ![k].pc = "par"]
       ELSE /\ threads' = [threads EXCEPT ![k].pc = "returned"]
            /\ UNCHANGED algs
  /\ UNCHANGED <<ui_from, ui_to, searching, search_results, uipc, clicked>>
  /\ UNCHANGED <<searchVars, cubeVars, packVars, faceVars>>

\* a task of thread k: tx.send(Algorithm(alg)) with alg of max_depth moves;
\* on Err the call returns and nothing is sent
ThreadSendAlgorithm(k) ==
  /\ threads[k].pc = "par"
  /\ ~threads[k].found
  /\ threads' = [threads EXCEPT ![k].found = TRUE]
  /\ IF ReceiverAlive(k)
       THEN algs' = [algs EXCEPT !.buf =
                       Append(@, UiResult(k, "Algorithm", threads[k].max_depth))]
       ELSE UNCHANGED algs
  /\ UNCHANGED <<ui_from, ui_to, searching, search_results, uipc, clicked>>
  /\ UNCHANGED <<searchVars, cubeVars, packVars, faceVars>>

\* search in thread k: for_each has returned, max_depth += 1
ThreadJoin(k) ==
  /\ threads[k].pc = "par"
  /\ threads' = [threads EXCEPT ![k].pc = "send", ![k].max_depth = @ + 1,
                                ![k].found = FALSE]
  /\ UNCHANGED <<ui_from, ui_to, searching, search_results, algs, uipc, clicked>>
  /\ UNCHANGED <<searchVars, cubeVars, packVars, faceVars>>

UiNext ==
  \/ UiTryRecv
  \/ \E click \in BOOLEAN, f \in UiFrom, t \in UiTo : UiButton(click, f, t)
  \/ \E k \in DOMAIN threads : ThreadSendDepth(k)
  \/ \E k \in DOMAIN threads : ThreadSendAlgorithm(k)
  \/ \E k \in DOMAIN threads : ThreadJoin(k)

UiSpec == UiInit /\ [][UiNext]_vars

(***************************************************************************)
(* The four moves R, U, R', U' applied to a cube over and over.            *)
(***************************************************************************)

\* the number of times the four moves are applied in a row
Rounds == 6

\* the four-move sequence
FourMoves == <<R, U, R_, U_>>

CycleInit ==
  /\ origin \in SampleCubes
  /\ goal = origin
  /\ before = origin
  /\ cur = origin
  /\ applied = <<>>
  /\ matched = <<>>
  /\ missing = <<>>
  /\ SearchIdle
  /\ PackIdle
  /\ UiIdle
  /\ FaceIdle

\* cur.turn(t) for the next move t of the sequence
CycleStep ==
  /\ Len(applied) < 4 * Rounds
  /\ LET t == FourMoves[(Len(applied) % 4) + 1]
     IN  /\ before' = cur
         /\ cur' = turn(cur, t)
         /\ applied' = Append(applied, t)
  /\ UNCHANGED <<origin, goal, matched, missing>>
  /\ UNCHANGED <<searchVars, packVars, uiVars, faceVars>>

CycleNext == CycleStep

CycleSpec == CycleInit /\ [][CycleNext]_vars

(***************************************************************************)
(* The three rotations of a face word, applied one after the other to a    *)
(* packed face.                                                            *)
(***************************************************************************)

\* largest number of rotations applied to a face word
MaxRotations == 4

\* the face word now
LastFace == trail[Len(trail)]

RotateInit ==
  /\ \E a \in SampleArrays : trail = <<face_from_colors(a)>>
  /\ rotations = <<>>
  /\ SearchIdle
  /\ CubeIdle
  /\ PackIdle
  /\ UiIdle

\* Cube::rotate_face(face)
CallRotateFace ==
  /\ Len(rotations) < MaxRotations
  /\ trail' = Append(trail, rotate_face(LastFace))
  /\ rotations' = Append(rotations, "rotate_face")
  /\ UNCHANGED <<searchVars, cubeVars, packVars, uiVars>>

\* Cube::rotate_face_(face)
CallRotateFace_ ==
  /\ Len(rotations) < MaxRotations
  /\ trail' = Append(trail, rotate_face_(LastFace))
  /\ rotations' = Append(rotations, "rotate_face_")
  /\ UNCHANGED <<searchVars, cubeVars, packVars, uiVars>>

\* Cube::rotate_face2(face)
CallRotateFace2 ==
  /\ Len(rotations) < MaxRotations
  /\ trail' = Append(trail, rotate_face2(LastFace))
  /\ rotations' = Append(rotations, "rotate_face2")
  /\ UNCHANGED <<searchVars, cubeVars, packVars, uiVars>>

RotateNext == CallRotateFace \/ CallRotateFace_ \/ CallRotateFace2

RotateSpec == RotateInit /\ [][RotateNext]_vars





(***************************************************************************)
(* Properties                                                              *)
(***************************************************************************)

\* the positions of the Algorithm results in the stream
SentAlgs == {k \in DOMAIN sent : sent[k].type = "Algorithm"}

\* Depth(d) has been accepted by the channel
DepthSent(d) == \E k \in DOMAIN sent : sent[k] = DepthMsg(d)

\* the moves of alg applied to cube c in order
RECURSIVE ApplyAll(_, _)
ApplyAll(c, alg) ==
  IF alg = <<>> THEN c ELSE ApplyAll(turn(c, Head(alg)), Tail(alg))

AllowedSet == {allowed[i] : i \in DOMAIN allowed}

\* the layer a move turns, read off the move table and not off the tag bits
ClassOf(t) ==
  CASE t \in {U, U_, U2} -> "U"
    [] t \in {D, D_, D2} -> "D"
    [] t \in {L, L_, L2} -> "L"
    [] t \in {R, R_, R2} -> "R"
    [] t \in {F, F_, F2} -> "F"
    [] t \in {B, B_, B2} -> "B"
    [] t \in {M, M_, M2} -> "M"

NoSameClassPair(alg) ==
  \A j \in 1..(Len(alg) - 1) : ClassOf(alg[j]) # ClassOf(alg[j + 1])

Solves(alg) == matches(ApplyAll(start, alg), pattern)

\* all length-d sequences over the allowed moves
MoveSeqs(d) == [1..d -> AllowedSet]

\* the search has finished every depth up to d with the Receiver still there
DepthsDone == IF pc = "send" /\ rxOpen THEN 1..(max_depth - 1) ELSE {}

\* C1: every Algorithm sent consists of allowed moves only, and applying
\* its moves in order to the start cube gives a cube that matches the pattern.
C1_AlgorithmsSolve ==
  \A k \in SentAlgs :
    /\ \A j \in DOMAIN sent[k].alg : sent[k].alg[j] \in AllowedSet
    /\ Solves(sent[k].alg)

\* an Algorithm of two or more moves has been sent
C1_Witness == \E k \in SentAlgs : Len(sent[k].alg) >= 2

\* C2: no Algorithm sent has two consecutive moves of the same class, the
\* pair of the task's root move and the second move included.
C2_NoSameClassAdjacent ==
  \A k \in SentAlgs : NoSameClassPair(sent[k].alg)

\* depth 2 is done, an Algorithm of two moves was sent, and a two-move
\* sequence of one class that also solves exists and was left out
C2_Witness ==
  /\ 2 \in DepthsDone
  /\ \E k \in SentAlgs : Len(sent[k].alg) = 2
  /\ \E s \in MoveSeqs(2) : ClassOf(s[1]) = ClassOf(s[2]) /\ Solves(s)

\* C3: with the Receiver open, once depth d is done the Algorithms of
\* length d in the stream are exactly the length-d sequences over the allowed
\* moves with no two adjacent moves of one class that solve (those with a
\* solving proper prefix included), each of them once, whatever the
\* interleaving of the tasks was.
C3_ExactSolutionSet ==
  /\ \A j, k \in SentAlgs : j # k => sent[j].alg # sent[k].alg
  /\ \A d \in DepthsDone :
       {sent[k].alg : k \in {j \in SentAlgs : Len(sent[j].alg) = d}}
         = {s \in MoveSeqs(d) : NoSameClassPair(s) /\ Solves(s)}

\* depth 2 is done; the second task's solution came before the first task's,
\* and a solution with a solving proper prefix was sent
C3_Witness ==
  /\ 2 \in DepthsDone
  /\ \E j, k \in SentAlgs :
       /\ j < k
       /\ Len(sent[j].alg) = 2 /\ Len(sent[k].alg) = 2
       /\ sent[j].alg[1] = allowed[2] /\ sent[k].alg[1] = allowed[1]
       /\ Solves(SubSeq(sent[k].alg, 1, 1))

\* C4: in every prefix of the stream Depth(d) comes before any Algorithm
\* of length d.
C4_DepthBeforeAlgorithm ==
  \A k \in SentAlgs :
    \E j \in 1..(k - 1) : sent[j] = DepthMsg(Len(sent[k].alg))

\* an Algorithm of the deepest depth has been sent
C4_Witness == \E k \in SentAlgs : Len(sent[k].alg) = MaxDepth

\* C8: no Algorithm of length 0 is ever sent; the first message is
\* Depth(1), also when the start cube already matches the pattern.
C8_NoEmptyAlgorithm ==
  /\ sent # <<>> => sent[1] = DepthMsg(1)
  /\ \A k \in SentAlgs : Len(sent[k].alg) >= 1

\* the start cube matches the pattern and an Algorithm has been sent
C8_Witness == matches(start, pattern) /\ SentAlgs # {}

\* C9 as claimed: from the solved cube with the yellow-up pattern,
\* Algorithm([]) is in the stream before Depth(1).
C9_EmptyAlgorithmFirst ==
  (start = solved_state /\ pattern = YellowUp) =>
    \A k \in DOMAIN sent :
      sent[k] = DepthMsg(1) => \E j \in 1..(k - 1) : sent[j] = AlgorithmMsg(<<>>)

\* C9 amended: from the solved cube with the yellow-up pattern the
\* stream starts with Depth(1), Algorithm([]) is never sent, and every Algorithm
\* comes after Depth(1).
C9_DepthOneFirst ==
  (start = solved_state /\ pattern = YellowUp) =>
    /\ \A k \in DOMAIN sent : sent[k] # AlgorithmMsg(<<>>)
    /\ \A k \in SentAlgs : k > 1 /\ sent[1] = DepthMsg(1)

\* the solved cube with the yellow-up pattern: solutions have been sent
C9_Witness ==
  /\ start = solved_state /\ pattern = YellowUp
  /\ matches(start, pattern)
  /\ \E k \in SentAlgs : Len(sent[k].alg) = 1


\* C5 as claimed: once a send of task w has failed, task w applies no
\* further move, makes no further match test and attempts no further send.
C5_StopsAfterFailedSend ==
  [][\A w \in DOMAIN failed : failed[w] => stats'[w] = stats[w]]_vars

\* C6: after the Receiver is dropped the search returns: the tasks of
\* the depth in progress finish, the next send of a Depth marker fails, and from
\* the drop on no task is started.
C6_DropEndsSearch ==
  /\ ~rxOpen ~> pc = "returned"
  /\ [][~rxOpen => \A w \in DOMAIN wpc :
                     wpc'[w] = "spawned" => wpc[w] = "spawned"]_vars

\* the search has returned after a drop that came while tasks were running
C6_Witness ==
  /\ pc = "returned"
  /\ \A w \in Tasks : wpc[w] = "done"
  /\ \E w \in Tasks : failed[w]

\* C7: the search returns only when the Receiver is gone, and as long as
\* the Receiver stays it sends Depth(d) for every d (here: every d up to
\* MaxDepth), also after solutions have been found.
C7_RunsWhileOpen ==
  /\ [](pc = "returned" => ~rxOpen)
  /\ \A d \in 1..MaxDepth : <>(~rxOpen \/ DepthSent(d))

\* the deepest Depth marker has been sent after solutions were found
C7_Witness ==
  /\ rxOpen
  /\ pc # "returned"
  /\ \E j, k \in DOMAIN sent :
       j < k /\ sent[j].type = "Algorithm" /\ sent[k] = DepthMsg(MaxDepth)

\* the allowed moves hold all three variants of every class they hold one of
VariantClosed ==
  \A t \in AllowedSet : \A u \in Turn : ClassOf(u) = ClassOf(t) => u \in AllowedSet

\* some sequence of d allowed moves solves, and no Algorithm of at most d
\* moves is in the stream
Lost(d) ==
  /\ \E s \in MoveSeqs(d) : Solves(s)
  /\ ~ \E k \in SentAlgs : Len(sent[k].alg) <= d

\* C10 as claimed: whatever the allowed moves, if a sequence of d >= 1
\* allowed moves solves then an Algorithm of at most d moves is sent.  (The
\* Algorithms sent after depth d is done are longer than d, so "eventually"
\* is decided when depth d is done.)
C10_NoSolutionLost ==
  \A d \in DepthsDone : ~Lost(d)

\* C10 amended: the same for allowed moves that hold all three variants
\* of each of their classes and a start cube that does not match the pattern.
C10_NoSolutionLostClosed ==
  (VariantClosed /\ ~matches(start, pattern)) =>
    \A d \in DepthsDone : ~Lost(d)

\* depth 2 is done for variant-closed moves and a start that does not match:
\* two moves of one class solve, and a shorter Algorithm has been sent
C10_Witness ==
  /\ VariantClosed /\ ~matches(start, pattern)
  /\ 2 \in DepthsDone
  /\ \E s \in MoveSeqs(2) : ClassOf(s[1]) = ClassOf(s[2]) /\ Solves(s)
  /\ \E k \in SentAlgs : Len(sent[k].alg) = 1

(***************************************************************************)
(* Properties of the moves, checked under TurnSpec: before is the cube     *)
(* before the last move and cur the cube after it.                         *)
(***************************************************************************)

LastMove == applied[Len(applied)]

Clockwise == {U, D, L, R, F, B, M}
CounterClockwise == {U_, D_, L_, R_, F_, B_, M_}
HalfTurns == {U2, D2, L2, R2, F2, B2, M2}

\* the designated inverse: X' of X, X of X', X2 of X2
InverseOf(t) ==
  IF t \in Clockwise THEN t + 1
  ELSE IF t \in CounterClockwise THEN t - 1
  ELSE t

\* the half turn of a quarter turn's class
HalfOf(t) == IF t \in Clockwise THEN t + 2 ELSE t + 1

FaceNames == {"up", "down", "left", "right", "front", "back"}

\* slot i (0..8) of a face word
Slot(face, i) == Shr(face, 3 * i) % 8

\* C11: every move is undone by its designated inverse: whatever cube the
\* last move X, X' or X2 was applied to, applying X', X or X2 to the result
\* gives that cube back, all six face words compared.
C11_InverseUndoes ==
  applied # <<>> => turn(cur, InverseOf(LastMove)) = before

\* C11: a half turn of the middle layer has been applied to a marked cube
\* after another move, and M2 once more undoes it
C11_Witness ==
  /\ origin = Marked(1)
  /\ Len(applied) = 2
  /\ LastMove = M2
  /\ cur # before
  /\ turn(cur, M2) = before

\* C12: a quarter turn applied twice is the half turn of its class, in
\* either direction, and applied four times it gives the cube back.
C12_TwiceIsHalfTurn ==
  (applied # <<>> /\ LastMove \in Clockwise \cup CounterClockwise) =>
    LET twice == turn(cur, LastMove)
    IN  /\ twice = turn(before, HalfOf(LastMove))
        /\ turn(turn(twice, LastMove), LastMove) = before

\* C12: a counter-clockwise quarter turn has been applied to a marked cube,
\* and the second one gives a cube other than both
C12_Witness ==
  /\ origin = Marked(0)
  /\ Len(applied) = 2
  /\ LastMove = F_
  /\ turn(cur, F_) # cur
  /\ turn(cur, F_) # before

\* C13 as claimed: no move, M, M' and M2 included, changes slot 4 of any
\* face.
C13_CentresNeverMove ==
  applied # <<>> =>
    \A f \in FaceNames : Slot(cur[f], 4) = Slot(before[f], 4)

\* C13 as amended: the 18 face moves change slot 4 of no face; the M-class
\* moves keep slot 4 of left and right and carry slot 4 of up, front, down
\* and back along with the middle layer.
C13_CentresFixedByFaceMoves ==
  applied # <<>> =>
    /\ LastMove \notin {M, M_, M2} =>
         \A f \in FaceNames : Slot(cur[f], 4) = Slot(before[f], 4)
    /\ LastMove \in {M, M_, M2} =>
         /\ Slot(cur.left, 4) = Slot(before.left, 4)
         /\ Slot(cur.right, 4) = Slot(before.right, 4)
    /\ LastMove = M =>
         /\ Slot(cur.up, 4) = Slot(before.back, 4)
         /\ Slot(cur.front, 4) = Slot(before.up, 4)
         /\ Slot(cur.down, 4) = Slot(before.front, 4)
         /\ Slot(cur.back, 4) = Slot(before.down, 4)
    /\ LastMove = M_ =>
         /\ Slot(cur.up, 4) = Slot(before.front, 4)
         /\ Slot(cur.front, 4) = Slot(before.down, 4)
         /\ Slot(cur.down, 4) = Slot(before.back, 4)
         /\ Slot(cur.back, 4) = Slot(before.up, 4)
    /\ LastMove = M2 =>
         /\ Slot(cur.up, 4) = Slot(before.down, 4)
         /\ Slot(cur.down, 4) = Slot(before.up, 4)
         /\ Slot(cur.front, 4) = Slot(before.back, 4)
         /\ Slot(cur.back, 4) = Slot(before.front, 4)

\* C13: a face has been turned on a cube whose centres an earlier M has
\* moved, and the centres stayed
C13_Witness ==
  /\ origin = solved_state
  /\ applied = <<M, F2>>
  /\ Slot(cur.up, 4) # Slot(origin.up, 4)
  /\ cur.up # before.up

\* the number of stickers of each colour code 0..6 on the six faces
StickerCounts(c) ==
  LET sticker == [x \in FaceNames \X (0..8) |-> Slot(c[x[1]], x[2])]
  IN  [col \in 0..6 |-> Cardinality({x \in DOMAIN sticker : sticker[x] = col})]

\* nine stickers of each real colour and no Grey one
NineOfEach == [col \in 0..6 |-> IF col = Grey THEN 0 ELSE 9]

\* the start cubes of TurnSpec, and the sticker counts of each
StartCubes == {sc.start : sc \in CubeScenarios}

StartCounts == [c \in StartCubes |-> StickerCounts(c)]

\* C14: every move keeps the number of stickers of each colour: after every
\* sequence of moves the counts are those of the cube it started from; so a
\* cube reached from solved_state has nine stickers of each of the six real
\* colours and no Grey one.
C14_ColourCountKept ==
  LET counts == StickerCounts(cur)
  IN  /\ counts = StartCounts[origin]
      /\ origin = solved_state => counts = NineOfEach

\* C14: two moves have been applied to the solved cube and mixed the
\* colours of a face
C14_Witness ==
  /\ origin = solved_state
  /\ Len(applied) = 2
  /\ Slot(cur.front, 0) # Slot(cur.front, 8)
  /\ Slot(cur.left, 0) # Slot(cur.left, 8)

\* the face a face move turns, and the face opposite to it
TurnedFace(t) ==
  CASE t \in {U, U_, U2} -> "up"
    [] t \in {D, D_, D2} -> "down"
    [] t \in {L, L_, L2} -> "left"
    [] t \in {R, R_, R2} -> "right"
    [] t \in {F, F_, F2} -> "front"
    [] t \in {B, B_, B2} -> "back"

Opposite(f) ==
  CASE f = "up" -> "down" [] f = "down" -> "up"
    [] f = "left" -> "right" [] f = "right" -> "left"
    [] f = "front" -> "back" [] f = "back" -> "front"

\* the three slots of face g that touch face f, in the layout of the face
\* words: up, down, front and back have slots 0,3,6 on the left and 2,5,8 on
\* the right; up has 6,7,8 at front, down 0,1,2; front has 0,1,2 at up,
\* back 6,7,8; left and right have 6,7,8 at front and 0,1,2 at back,
\* left has 2,5,8 at up and right 0,3,6
Band(g, f) ==
  CASE f = "left" -> MASK036
    [] f = "right" -> MASK258
    [] g = "up" /\ f = "front" -> MASK678
    [] g = "up" /\ f = "back" -> MASK012
    [] g = "down" /\ f = "front" -> MASK012
    [] g = "down" /\ f = "back" -> MASK678
    [] g = "front" /\ f = "up" -> MASK012
    [] g = "front" /\ f = "down" -> MASK678
    [] g = "back" /\ f = "up" -> MASK678
    [] g = "back" /\ f = "down" -> MASK012
    [] g \in {"left", "right"} /\ f = "front" -> MASK678
    [] g \in {"left", "right"} /\ f = "back" -> MASK012
    [] g = "left" /\ f = "up" -> MASK258
    [] g = "left" /\ f = "down" -> MASK036
    [] g = "right" /\ f = "up" -> MASK036
    [] g = "right" /\ f = "down" -> MASK258

\* C15: a face move changes only the word of the turned face and, on each
\* of the four neighbour faces, the three slots that touch the turned face;
\* an M-class move changes only slots 1, 4 and 7 of up, down, front and back.
C15_FrameOfMoves ==
  applied # <<>> =>
    IF LastMove \in {M, M_, M2}
      THEN /\ cur.left = before.left
           /\ cur.right = before.right
           /\ \A g \in {"up", "down", "front", "back"} :
                AndNot[cur[g], MASK147] = AndNot[before[g], MASK147]
      ELSE LET f == TurnedFace(LastMove)
           IN  /\ cur[Opposite(f)] = before[Opposite(f)]
               /\ \A g \in FaceNames \ {f, Opposite(f)} :
                    AndNot[cur[g], Band(g, f)] = AndNot[before[g], Band(g, f)]

\* C15: B has been applied after another move and has changed the back
\* face and the band of all four neighbours
C15_Witness ==
  /\ origin = solved_state
  /\ Len(applied) = 2
  /\ LastMove = B
  /\ cur.back # before.back
  /\ \A g \in {"up", "down", "left", "right"} : cur[g] # before[g]
  /\ cur.front = before.front

(***************************************************************************)
(* Properties of matches and missing_colors, checked under MatchSpec.      *)
(***************************************************************************)

\* slot by slot: the pattern's slot is Grey or equals the cube's slot
SlotwiseMatch(c, pat) ==
  \A f \in FaceNames : \A i \in 0..8 :
    Slot(pat[f], i) = Grey \/ Slot(pat[f], i) = Slot(c[f], i)

WildcardFree(c) ==
  \A f \in FaceNames : \A i \in 0..8 : Slot(c[f], i) # Grey

\* C16: matches returns true exactly when every slot of the pattern is Grey
\* or equals the cube's slot; the six bitwise pre-tests change nothing, that
\* is, the six matches_face tests alone give the same result; every cube
\* matches the all-Grey pattern and a cube without Grey matches itself.
C16_MatchesIsSlotwise ==
  matched # <<>> =>
    /\ matched[1] = SlotwiseMatch(cur, goal)
    /\ matched[1] = (\A f \in FaceNames : matches_face(cur[f], goal[f]))
    /\ goal = AllGrey => matched[1]
    /\ (goal = cur /\ WildcardFree(cur)) => matched[1]

\* C16: matches has accepted a cube for a pattern with Grey slots that is
\* not the cube itself
C16_Witness ==
  /\ matched = <<TRUE>>
  /\ cur = solved_state
  /\ goal = YellowUp

\* the numbers of stickers of colour col on the corner slots and on the
\* other slots of the six faces
CornerCount(c, col) ==
  Cardinality({x \in FaceNames \X {0, 2, 6, 8} : Slot(c[x[1]], x[2]) = col})

EdgeCount(c, col) ==
  Cardinality({x \in FaceNames \X {1, 3, 4, 5, 7} : Slot(c[x[1]], x[2]) = col})

ShortOf(c, pat, col) ==
  \/ CornerCount(c, col) < CornerCount(pat, col)
  \/ EdgeCount(c, col) < EdgeCount(pat, col)

\* the real colours the cube is short of, in the order White .. Orange
ExpectedMissing(c, pat) ==
  LET Short(col) == ShortOf(c, pat, col)
  IN  SelectSeq(<<White, Yellow, Green, Blue, Red, Orange>>, Short)

\* C17: missing_colors returns, in the order White, Yellow, Green, Blue,
\* Red, Orange and each at most once, exactly the real colours of which the
\* cube has fewer corner stickers or fewer edge-and-centre stickers than
\* the pattern; Grey is not counted and never returned; the solved cube
\* against a pattern with ten Yellow corner stickers gives [Yellow].
C17_MissingColorsExact ==
  missing # <<>> =>
    /\ missing[1] = ExpectedMissing(cur, goal)
    /\ \A k \in DOMAIN missing[1] : missing[1][k] # Grey
    /\ (cur = solved_state /\ goal = TenYellowCorners) => missing[1] = <<Yellow>>

\* C17: missing_colors has returned [Yellow] for the solved cube and the
\* pattern with ten Yellow corner stickers
C17_Witness ==
  /\ cur = solved_state
  /\ goal = TenYellowCorners
  /\ missing = << <<Yellow>> >>

(***************************************************************************)
(* The colour inventory and the moves, checked under TurnSpec.             *)
(***************************************************************************)

\* colors and missing_colors of the start cubes of TurnSpec
StartColors == [c \in StartCubes |-> colors(c)]

StartMissing == [sc \in CubeScenarios |-> missing_colors(sc.start, sc.pattern)]

\* C18: the inventory check is necessary for solvability: if the cube
\* reached from origin by moves matches the pattern, missing_colors of
\* origin and the pattern is empty; the corner inventory and the
\* edge-and-centre inventory are the same after every sequence of moves,
\* M-class moves included.
C18_InventoryIsNecessary ==
  /\ colors(cur) = StartColors[origin]
  /\ matches(cur, goal) =>
       StartMissing[[start |-> origin, pattern |-> goal]] = <<>>

\* C18: an M-class move, which moves centres, has taken a cube that did not
\* match the pattern to one that does
C18_Witness ==
  /\ origin = solved_state
  /\ goal = YellowUp
  /\ applied = <<M, M_>>
  /\ ~matches(before, goal)
  /\ matches(cur, goal)
  /\ Slot(cur.up, 4) # Slot(before.up, 4)

\* the class index U=0, D=1, L=2, R=3, F=4, B=5, M=6 and the variant
\* 0 clockwise, 1 counter-clockwise, 2 half turn
ClassIndex(t) ==
  CASE t \in {U, U_, U2} -> 0
    [] t \in {D, D_, D2} -> 1
    [] t \in {L, L_, L2} -> 2
    [] t \in {R, R_, R2} -> 3
    [] t \in {F, F_, F2} -> 4
    [] t \in {B, B_, B2} -> 5
    [] t \in {M, M_, M2} -> 6

Variant(t) ==
  IF t \in Clockwise THEN 0 ELSE IF t \in CounterClockwise THEN 1 ELSE 2

\* C19 as claimed: for every Turn tag t, t >> 2 is the class index and
\* t & 0b11 the variant.
C19_ShiftGivesClassIndex ==
  applied # <<>> =>
    /\ Shr(LastMove, 2) = ClassIndex(LastMove)
    /\ And[LastMove, 3] = Variant(LastMove)

\* C19 as amended: t & 0b11 is the variant, and t >> 2 is 0 for the class U
\* and 2^(k-1) for the class of index k >= 1, one bit per class.
C19_ShiftGivesClassBit ==
  applied # <<>> =>
    /\ Shr(LastMove, 2) =
         (IF ClassIndex(LastMove) = 0 THEN 0 ELSE 2 ^ (ClassIndex(LastMove) - 1))
    /\ And[LastMove, 3] = Variant(LastMove)

\* C19: a move of class R, the first whose tag is not four times its index
\* plus the variant, has been applied
C19_Witness ==
  /\ applied # <<>>
  /\ LastMove = R_
  /\ cur = turn(before, R_)
  /\ Shr(LastMove, 2) # ClassIndex(LastMove)

(***************************************************************************)
(* The search with every move allowed, checked under AllMovesSpec.         *)
(***************************************************************************)

\* the places in sent of the Algorithms that follow Depth(1) and come
\* before Depth(2)
AtDepthOne ==
  {k \in SentAlgs :
     /\ \E i \in 1..(k - 1) : sent[i] = DepthMsg(1)
     /\ \A i \in 1..(k - 1) : sent[i] # DepthMsg(2)}

\* depth 1 has been searched to its end with the Receiver there
DepthOneDone == DepthSent(2) \/ (pc = "send" /\ max_depth = 2 /\ rxOpen)

\* C20: with start = turn(solved_state, R), pattern = solved_state and all
\* 21 moves allowed, the only Algorithm sent between Depth(1) and Depth(2)
\* is [R'], and it is sent exactly once.
C20_OnlyRPrimeAtDepthOne ==
  /\ \A k \in AtDepthOne : sent[k] = AlgorithmMsg(<<R_>>)
  /\ Cardinality(AtDepthOne) <= 1
  /\ DepthOneDone => Cardinality(AtDepthOne) = 1

\* C20: the 21 tasks of depth 1 have run to their end with the Receiver
\* there, and [R'] is in the channel
C20_Witness ==
  /\ allowed = AllMoves
  /\ DepthOneDone
  /\ \E k \in AtDepthOne : sent[k] = AlgorithmMsg(<<R_>>)


(***************************************************************************)
(* The two-move solve: the search from the cube scrambled by R then U,     *)
(* every move allowed, the consumer listening throughout.                  *)
(***************************************************************************)

\* the last depth the search of the two-move scramble is followed to
TwoMoveDepth == 2

TwoMoveInit ==
  /\ start = turn(turn(solved_state, R), U)
  /\ pattern = solved_state
  /\ allowed = AllMoves
  /\ max_depth = InitialMaxDepth
  /\ pc = "send"
  /\ rxOpen = TRUE
  /\ sent = <<>>
  /\ wpc = [w \in Tasks |-> "done"]
  /\ stack = [w \in Tasks |-> <<>>]
  /\ history = [w \in Tasks |-> <<>>]
  /\ failed = [w \in Tasks |-> FALSE]
  /\ stats = [w \in Tasks |-> ZeroStats]
  /\ CubeIdle
  /\ PackIdle
  /\ UiIdle
  /\ FaceIdle

\* the Receiver is kept, so that every send is Ok
TwoMoveNext ==
  \/ max_depth <= TwoMoveDepth /\ SendDepth
  \/ \E w \in Tasks : TaskStartInOrder(w)
  \/ \E w \in Tasks : Iterate(w)
  \/ \E w \in Tasks : Return(w)
  \/ Join

TwoMoveSpec == TwoMoveInit /\ [][TwoMoveNext]_vars

\* positions of sent that hold Algorithm(a)
SentAt(a) == {k \in DOMAIN sent : sent[k] = AlgorithmMsg(a)}

FrontByUpMoves ==
  /\ start = turn(solved_state, F)
  /\ pattern = solved_state
  /\ allowed = <<U, U_, U2>>

\* C22: with start = turn(solved_state, F), pattern = solved_state and the
\* moves U, U', U2, no Algorithm is ever sent, Depth(d) is sent for every d
\* (here: up to MaxDepth) as long as the Receiver stays, and from depth 2 on
\* every task applies its root move and nothing else, testing no cube.
C22_NoSolutionByUpMoves ==
  /\ [](FrontByUpMoves => SentAlgs = {})
  /\ \A d \in 1..MaxDepth : FrontByUpMoves => <>(~rxOpen \/ DepthSent(d))
  /\ [](FrontByUpMoves /\ pc = "par" /\ max_depth >= 2 =>
          \A w \in Tasks :
            /\ stats[w].turns <= 1
            /\ stats[w].tests = 0
            /\ wpc[w] = "done" => stats[w].turns = 1)

\* the tasks of the deepest depth have all run from the front-turned cube
\* and the stream holds the Depth markers only
C22_Witness ==
  /\ FrontByUpMoves
  /\ rxOpen
  /\ pc = "par"
  /\ max_depth = MaxDepth
  /\ \A w \in Tasks : wpc[w] = "done" /\ stats[w].turns = 1
  /\ Len(sent) = MaxDepth

\* every slot of every face holds one of the codes 0..6 and the bits 27..31
\* of every face word are zero
WellFormed(c) ==
  \A f \in FaceNames :
    /\ c[f] \in 0..(2 ^ 27 - 1)
    /\ \A i \in 0..8 : Slot(c[f], i) <= Orange

\* C23: every move keeps a cube well-formed: if every slot of every face of
\* the cube the last move was applied to holds a code in 0..6 and the bits
\* 27..31 of its face words are zero, the same holds of the result; so it
\* holds of every cube reached from solved_state or from a packed cube.
C23_MovesKeepWellFormed ==
  /\ WellFormed(origin)
  /\ applied # <<>> /\ WellFormed(before) => WellFormed(cur)
  /\ WellFormed(cur)

\* a counter-clockwise turn of the front layer has been applied to a cube
\* with Grey stickers, after another move
C23_Witness ==
  /\ origin = Marked(1)
  /\ Len(applied) = 2
  /\ LastMove = F_
  /\ cur # before
  /\ WellFormed(before)

\* the word whose bits [3i, 3i+3) hold the code of cs[i], for i in 0..8
RECURSIVE SlotsWord(_, _)
SlotsWord(cs, i) == IF i > 8 THEN 0 ELSE cs[i + 1] * (8 ^ i) + SlotsWord(cs, i + 1)

\* C24: packing then unpacking is the identity: for an array of nine
\* colours, nth_chunk(i, face_from_colors(cs)) is cs[i] for every slot i in
\* 0..8, slot i is in the bits [3i, 3i+3) of the word, and the bits 27..31 of
\* the word are zero.
C24_PackThenUnpack ==
  /\ packed # <<>> =>
       /\ packed[1] = SlotsWord(colorArray, 0)
       /\ packed[1] \in 0..(2 ^ 27 - 1)
  /\ chunk # <<>> => chunk[2] = colorArray[chunk[1] + 1]

\* the last slot of a packed face has been read back as Orange, beside Blue
C24_Witness ==
  /\ colorArray = OneOff(Blue, Orange, 8)
  /\ chunk = <<8, Orange>>

\* the positions of the Depth markers in the stream
SentDepths == {k \in DOMAIN sent : sent[k].type = "Depth"}

\* the number of Depth markers in the stream up to position k
DepthsUpTo(k) == Cardinality({j \in SentDepths : j <= k})

\* C25: the Depth markers are Depth(1), Depth(2), ... each once and in
\* increasing order; every Algorithm between Depth(d) and Depth(d+1) has
\* length d, so none of length <= d comes after Depth(d+1); and a Depth
\* marker is sent only when every task of the depth before is finished.
C25_DepthsInOrder ==
  /\ [](\A k \in SentDepths : sent[k].depth = DepthsUpTo(k))
  /\ [](\A k \in SentAlgs : Len(sent[k].alg) = DepthsUpTo(k))
  /\ [][Len(sent') > Len(sent) /\ sent'[Len(sent')].type = "Depth" =>
          \A w \in DOMAIN wpc : wpc[w] = "done"]_vars

\* Depth(2) has been sent after an Algorithm of length 1, and an Algorithm of
\* length 2 after it
C25_Witness ==
  \E i, j, k \in DOMAIN sent :
    /\ i < j /\ j < k
    /\ sent[i].type = "Algorithm" /\ Len(sent[i].alg) = 1
    /\ sent[j] = DepthMsg(2)
    /\ sent[k].type = "Algorithm" /\ Len(sent[k].alg) = 2

\* C26: for every pair of Turn tags t, u, here the last two moves applied,
\* the cast to u8 changes neither tag, and (t xor u) > 0b11 holds exactly when
\* t and u are of different classes: the successor test of search_helper
\* admits u after t exactly when u's class is not t's.
C26_XorTellsClasses ==
  Len(applied) >= 2 =>
    LET t == applied[Len(applied) - 1]
        u == LastMove
    IN  /\ AsU8(t) = t /\ AsU8(u) = u
        /\ (Xor[AsU8(u), AsU8(t)] > 3) <=> (ClassOf(t) # ClassOf(u))
        /\ Permitted(u, AsU8(t)) <=> (ClassOf(t) # ClassOf(u))

\* a move of class M, the tags above 127, has followed one of class U, and
\* one of class M has followed one of class M
C26_Witness ==
  /\ Len(applied) = 2
  /\ \/ applied = <<U_, M2>> /\ Permitted(M2, AsU8(U_))
     \/ applied = <<M, M_>> /\ ~Permitted(M_, AsU8(M))
  /\ cur = turn(before, LastMove)

\* search_helper of task w is running: the step of w, if any, is an iteration
\* of the loop of its innermost call or the return from it
InHelper(w) == pc = "par" /\ wpc[w] = "running"

\* the depth of the innermost call of search_helper in task w
InnerDepth(w) == stack[w][Len(stack[w])].depth

\* the indices of w's history buffer whose entry the step changes
WrittenAt(w) == {k \in DOMAIN history[w] : history'[w][k] # history[w][k]}

\* task w applies a move in the step
TurnsInStep(w) == stats'[w].turns > stats[w].turns

\* C27 as claimed: search_helper writes the history buffer only at the
\* indices 1..max_depth-1, never at 0 or max_depth, and applies no move at a
\* node of depth max_depth.
C27_LeafNeverExpanded ==
  [][\A w \in DOMAIN history :
       InHelper(w) =>
         /\ WrittenAt(w) \subseteq 1..(max_depth - 1)
         /\ TurnsInStep(w) => InnerDepth(w) < max_depth]_vars

\* C27 as amended: search_helper writes the history buffer at the depth of
\* the call whose loop runs, an index in 1..max_depth, and never at index 0;
\* it applies moves at nodes of every depth 1..max_depth, those of depth
\* max_depth that do not match included; the buffer has the indices
\* 0..max_depth, all of which but 0 are written.
C27_WritesUpToMaxDepth ==
  /\ [](\A w \in DOMAIN history :
          pc = "par" /\ history[w] # <<>> =>
            /\ DOMAIN history[w] = 0..max_depth
            /\ history[w][0] = allowed[w])
  /\ [][\A w \in DOMAIN history :
          InHelper(w) =>
            /\ WrittenAt(w) \subseteq ({InnerDepth(w)} \cap 1..max_depth)
            /\ TurnsInStep(w) => InnerDepth(w) \in 1..max_depth]_vars

\* a task has written a move other than its root move at index max_depth
\* of its history buffer, at depth 2, and applied it
C27_Witness ==
  /\ max_depth = 2
  /\ \E w \in Tasks :
       /\ wpc[w] = "running"
       /\ InnerDepth(w) = max_depth
       /\ history[w][max_depth] # allowed[w]
       /\ stats[w].turns >= 3

\* the pairs of classes of layers that share no sticker
Apart ==
  {{"U", "D"}, {"L", "R"}, {"F", "B"}, {"M", "L"}, {"M", "R"}}

\* C28: moves on opposite layers commute: when the last two moves a, b are
\* of the classes U and D, L and R, F and B, or M and one of L and R, in
\* either order, applying b then a to the cube they were applied to gives
\* the same cube as a then b.
C28_OppositeLayersCommute ==
  Len(applied) >= 2 =>
    LET a == applied[Len(applied) - 1]
        b == LastMove
    IN  {ClassOf(a), ClassOf(b)} \in Apart =>
          LET s == IF Len(applied) = 2 THEN origin ELSE turn(before, InverseOf(a))
          IN  /\ turn(s, a) = before
              /\ turn(turn(s, b), a) = cur

\* a move of the middle slice has followed a move of the right layer on the
\* solved cube, and changed it
C28_Witness ==
  /\ origin = solved_state
  /\ applied = <<R, M_>>
  /\ cur # before
  /\ turn(turn(origin, M_), R) = cur

(***************************************************************************)
(* Properties of the main loop, checked under UiSpec.                      *)
(***************************************************************************)

\* the cubes f and t pass the colour-inventory check
NoneMissing(f, t) == UiMissingColors[f][t] = <<>>

\* C29: a search thread is spawned only by a click on the search button
\* while searching is false and from.missing_colors(&to) is empty, with that
\* from and to; a click while searching is true spawns nothing and sets
\* searching to false; so no thread searches from a cube that fails the
\* colour-inventory check.
C29_SpawnOnlyOnSearchClick ==
  /\ [](\A k \in DOMAIN threads : NoneMissing(threads[k].from, threads[k].to))
  /\ [][threads' # threads /\ Len(threads') > Len(threads) =>
          /\ uipc = "button" /\ uipc' = "recv" /\ clicked'
          /\ ~searching /\ searching'
          /\ NoneMissing(ui_from, ui_to)
          /\ Len(threads') = Len(threads) + 1
          /\ threads'[Len(threads')].from = ui_from
          /\ threads'[Len(threads')].to = ui_to]_vars
  /\ [][uipc = "button" /\ uipc' = "recv" /\ clicked' /\ searching =>
          Len(threads') = Len(threads) /\ ~searching']_vars

\* a second search has been started by a click, for the yellow-up pattern,
\* and the user has then painted Grey stickers on the start cube
C29_Witness ==
  /\ searching
  /\ clicked
  /\ Len(threads) = 2
  /\ threads[2].from = solved_state
  /\ threads[2].to = YellowUp
  /\ ui_from = Marked(0)

\* C30: a click on Stop replaces the channel; from then on no send of the
\* stopped search is Ok: the only thread whose sends can be Ok is the last
\* one spawned, while searching is true, and nothing else is ever added to
\* the channel; search_results and the channel hold results of the last
\* search started only, also while threads of stopped searches are running.
C30_StoppedSearchIsCutOff ==
  /\ [](\A k \in DOMAIN threads :
          ReceiverAlive(k) => k = Len(threads) /\ searching)
  /\ [](\A i \in DOMAIN search_results : search_results[i].by = Len(threads))
  /\ [](\A i \in DOMAIN algs.buf : algs.buf[i].by = Len(threads))
  /\ [][searching /\ ~searching' => algs'.id # algs.id /\ algs'.buf = <<>>]_vars
  /\ [][algs'.id = algs.id /\ Len(algs'.buf) > Len(algs.buf) =>
          LET m == algs'.buf[Len(algs'.buf)]
          IN  ReceiverAlive(m.by) /\ m.by = Len(threads) /\ searching]_vars

\* the second search's results are in search_results while the thread of
\* the first, stopped, search is still inside its depth, after a send of its
\* own that failed
C30_Witness ==
  /\ searching
  /\ Len(threads) = 2
  /\ threads[1].pc = "par"
  /\ threads[1].found
  /\ search_results # <<>>
  /\ \A i \in DOMAIN search_results : search_results[i].by = 2

(***************************************************************************)
(* Properties of the repeated four moves, checked under CycleSpec.         *)
(***************************************************************************)

\* C31: the moves of the right and the up layer fit together as on a
\* physical cube: R, U, R', U' applied six times in a row, 24 moves, give
\* back exactly the cube they started from.
C31_SixRoundsGiveBack ==
  Len(applied) > 0 /\ Len(applied) % 24 = 0 => cur = origin

\* the 24 moves have been applied to the solved cube, which the first 23 of
\* them had left changed
C31_Witness ==
  /\ origin = solved_state
  /\ Len(applied) = 24
  /\ cur = solved_state
  /\ before # solved_state
  /\ LastMove = U_

(***************************************************************************)
(* Properties of the rotations of a face word, checked under RotateSpec.   *)
(***************************************************************************)

\* where the clockwise quarter turn of a face sends each slot
Quarter == [i \in 0..8 |-> CASE i = 0 -> 2 [] i = 2 -> 8 [] i = 8 -> 6 [] i = 6 -> 0
                             [] i = 1 -> 5 [] i = 5 -> 7 [] i = 7 -> 3 [] i = 3 -> 1
                             [] i = 4 -> 4]

\* the last n rotations applied are those of names, in order
EndsWith(names) ==
  /\ Len(rotations) >= Len(names)
  /\ SubSeq(rotations, Len(rotations) - Len(names) + 1, Len(rotations)) = names

\* the face word n rotations ago
FaceBack(n) == trail[Len(trail) - n]

\* C32: the three rotations are permutations of the nine slots that fit
\* together: rotate_face sends slot 0 to 2, 2 to 8, 8 to 6, 6 to 0, 1 to 5,
\* 5 to 7, 7 to 3, 3 to 1 and keeps slot 4; rotate_face_ sends every slot back
\* and undoes rotate_face, in either order; rotate_face2 is rotate_face
\* twice and undoes itself; rotate_face four times gives the word back.
C32_RotationsFit ==
  /\ EndsWith(<<"rotate_face">>) =>
       \A i \in 0..8 : Slot(LastFace, Quarter[i]) = Slot(FaceBack(1), i)
  /\ EndsWith(<<"rotate_face_">>) =>
       \A i \in 0..8 : Slot(LastFace, i) = Slot(FaceBack(1), Quarter[i])
  /\ EndsWith(<<"rotate_face2">>) =>
       \A i \in 0..8 : Slot(LastFace, Quarter[Quarter[i]]) = Slot(FaceBack(1), i)
  /\ EndsWith(<<"rotate_face", "rotate_face_">>) => LastFace = FaceBack(2)
  /\ EndsWith(<<"rotate_face_", "rotate_face">>) => LastFace = FaceBack(2)
  /\ EndsWith(<<"rotate_face", "rotate_face">>) => LastFace = rotate_face2(FaceBack(2))
  /\ EndsWith(<<"rotate_face2", "rotate_face2">>) => LastFace = FaceBack(2)
  /\ EndsWith(<<"rotate_face", "rotate_face", "rotate_face", "rotate_face">>) =>
       LastFace = FaceBack(4)
  /\ \A k \in DOMAIN trail : trail[k] \in 0..(2 ^ 27 - 1)

\* a face with nine slots, seven colours among them, has been turned
\* clockwise four times, and was another word after each of the first three
C32_Witness ==
  /\ trail[1] = face_from_colors(MarkFace(0))
  /\ rotations = <<"rotate_face", "rotate_face", "rotate_face", "rotate_face">>
  /\ LastFace = trail[1]
  /\ \A k \in 2..4 : trail[k] # trail[1]
=============================================================================
